---- MODULE Spec2Model ----
(***************************************************************************)
(* Model of channels-console: the proxy wrappers around MPSC and oneshot   *)
(* channels (two forwarders per channel), the instrumentation entry        *)
(* points, and the stats collector that applies the wrappers' events.      *)
(***************************************************************************)
EXTENDS Integers, Sequences, FiniteSets, TLC

\* ------------------------------------------------------------------ bounds
MaxMsgs == 3
LiveMsgs == 2
MaxCap == 1
MaxWraps == 2
MaxIds == 2
MaxLogged == 3
MaxLimit == 2
MaxTicks == 2

\* ------------------------------------------------------- program constants
DEFAULT_LOG_LIMIT == 50

VARIABLES
    w,            \* the wrapped MPSC channel: proxies, real channel, forwarders
    w2,           \* a second copy of the wrapper whose event emits all fail
    o,            \* the wrapped oneshot channel
    events,       \* the collector's event channel (unbounded, FIFO)
    stats,        \* the collector's table: id -> record
    collectorUp,  \* whether the collector's end of the event channel is alive
    site,         \* the wrap sites: id counter and the instrument() calls
    env,          \* the process environment read by the collector
    strm,         \* the wrapped stream and the task polling it
    http,         \* the request the HTTP server handled last, and its answer
    app           \* the dashboard (console TUI) application state

vars == <<w, w2, o, events, stats, collectorUp, site, env, strm, http, app>>

\* Option<T>
None == <<>>
Some(n) == <<n>>
unwrap(opt) == opt[1]

Flavours == {"blocking", "tokio", "futures"}
Caps == 1..MaxCap
NoMsg == 0

\* ------------------------------------------------------------ stats events
\* display_label is the label given to the macro, None when there is none
CreatedWith(id, source, label, ct) ==
    [type |-> "Created", id |-> id, source |-> source,
     display_label |-> label, channel_type |-> ct]
Created(id, source, ct) == CreatedWith(id, source, None, ct)
\* timestamp: std::time::Instant::now() where the event is built
MessageSent(id) ==
    [type |-> "MessageSent", id |-> id, timestamp |-> env.now]
MessageReceived(id) ==
    [type |-> "MessageReceived", id |-> id, timestamp |-> env.now]
Closed(id) == [type |-> "Closed", id |-> id]
StreamCreatedWith(id, source, label) ==
    [type |-> "StreamCreated", id |-> id, source |-> source,
     display_label |-> label]
StreamCreated(id, source) == StreamCreatedWith(id, source, None)
StreamItemYielded(id) ==
    [type |-> "StreamItemYielded", id |-> id, timestamp |-> env.now]
StreamCompleted(id) == [type |-> "StreamCompleted", id |-> id]
Notified(id) == [type |-> "Notified", id |-> id]

Bounded(n) == [kind |-> "Bounded", cap |-> n]
Unbounded == [kind |-> "Unbounded", cap |-> 0]
Oneshot == [kind |-> "Oneshot", cap |-> 0]

\* `let _ = stats_tx.send(ev)`: the event is queued when the collector's
\* receiver is alive; otherwise the send returns Err.
EmitOk(up) == up
Emit(q, ev, up) == IF EmitOk(up) THEN Append(q, ev) ELSE q

\* --------------------------------------------------- the wrapped MPSC pair
\* mpsc::sync_channel(capacity) / bounded(capacity) / mpsc::channel(capacity):
\* number of messages a proxy (or the real channel) buffers.  A
\* futures-channel holds `buffer + num_senders` messages.
Slots(c) ==
    IF c.flavour = "futures" THEN c.capacity + 1 ELSE c.capacity

HasRoom(c, q) == ~c.bounded \/ Len(q) < Slots(c)

\* `tx.send(msg).await` of a bounded futures Sender returns after the flush:
\* when the sender is unparked again (the queue is back within `buffer`) or
\* the receiver is gone.  The other sends return once the message is queued.
Flushed(c, q, rx_alive) ==
    \/ ~(c.flavour = "futures" /\ c.bounded)
    \/ Len(q) <= c.capacity
    \/ ~rx_alive

\* `budget`: how many messages the user program goes on to send.
WrapInit(fl, bd, cap, budget) ==
    [ flavour |-> fl, bounded |-> bd, capacity |-> cap, budget |-> budget,
      outer_tx |-> TRUE, outer_rx |-> TRUE,
      ingress |-> <<>>, to_inner_rx |-> "open",
      inner |-> <<>>, inner_tx |-> TRUE, inner_rx |-> TRUE,
      egress |-> <<>>, from_inner_tx |-> TRUE,
      close_signal |-> "empty",
      sf |-> IF fl = "blocking" THEN "check" ELSE "select", sf_msg |-> NoMsg,
      rf |-> "recv", rf_msg |-> NoMsg,
      sent |-> <<>>, rcvd |-> <<>>,
      send_err |-> FALSE, recv_closed |-> FALSE ]

\* ---- user side ----------------------------------------------------------
\* outer_tx.send(msg) returning Ok: the ingress receiver is open and has room.
\* (With no room a blocking send waits and a try_send reports Full: no step.)
UserSend(c, ok) ==
    IF /\ c.outer_tx
       /\ Len(c.sent) < c.budget
       /\ c.to_inner_rx = "open"
       /\ HasRoom(c, c.ingress)
    THEN {[c EXCEPT !.ingress = Append(@, Len(c.sent) + 1),
                    !.sent = Append(@, Len(c.sent) + 1)]}
    ELSE {}

\* outer_tx.send(msg) returning a disconnected / closed error.
UserSendErr(c, ok) ==
    IF c.outer_tx /\ c.to_inner_rx # "open" /\ ~c.send_err
    THEN {[c EXCEPT !.send_err = TRUE]}
    ELSE {}

\* drop(outer_tx)
TxDrop(c, ok) ==
    IF c.outer_tx THEN {[c EXCEPT !.outer_tx = FALSE]} ELSE {}

\* outer_rx.recv() returning a message.
UserRecv(c, ok) ==
    IF c.outer_rx /\ c.egress # <<>>
    THEN {[c EXCEPT !.egress = Tail(@), !.rcvd = Append(@, Head(c.egress))]}
    ELSE {}

\* outer_rx.recv() returning disconnected / None: egress is empty and the
\* recv forwarder has dropped from_inner_tx.
UserRecvClosed(c, ok) ==
    IF c.outer_rx /\ c.egress = <<>> /\ ~c.from_inner_tx /\ ~c.recv_closed
    THEN {[c EXCEPT !.recv_closed = TRUE]}
    ELSE {}

\* drop(outer_rx): the messages buffered in the egress proxy are dropped.
RxDrop(c, ok) ==
    IF c.outer_rx THEN {[c EXCEPT !.outer_rx = FALSE, !.egress = <<>>]} ELSE {}

\* ---- send forwarder (outer -> inner) ------------------------------------
\* blocking flavour: close_signal_rx.try_recv(); Ok and Disconnected break.
SfCheck(c, ok) ==
    IF c.flavour = "blocking" /\ c.sf = "check"
    THEN {[c EXCEPT !.sf = IF c.close_signal = "empty" THEN "recv" ELSE "closing"]}
    ELSE {}

\* (mutant) a Timeout of recv_timeout is taken for a disconnect.
SfRecv_TimeoutBreaks(c, ok) ==
    IF c.flavour = "blocking" /\ c.sf = "recv"
    THEN IF c.ingress # <<>>
         THEN {[c EXCEPT !.ingress = Tail(@), !.sf_msg = Head(c.ingress),
                         !.sf = "send"]}
         ELSE {[c EXCEPT !.sf = "closing"]}
    ELSE {}

\* blocking flavour: to_inner_rx.recv_timeout(10ms): Ok(msg), Timeout
\* (loop again) or Disconnected (outer sender dropped and ingress drained).
SfRecv(c, ok) ==
    IF c.flavour = "blocking" /\ c.sf = "recv"
    THEN IF c.ingress # <<>>
         THEN {[c EXCEPT !.ingress = Tail(@), !.sf_msg = Head(c.ingress),
                         !.sf = "send"]}
         ELSE IF c.outer_tx THEN {[c EXCEPT !.sf = "check"]}
         ELSE {[c EXCEPT !.sf = "closing"]}
    ELSE {}

\* (mutant) the forwarder stops as soon as the outer sender is dropped,
\* leaving what ingress still buffers.
SfSelectRecv_NoDrain(c, ok) ==
    IF c.flavour # "blocking" /\ c.sf = "select"
    THEN IF ~c.outer_tx THEN {[c EXCEPT !.sf = "closing"]}
         ELSE IF c.ingress # <<>>
         THEN {[c EXCEPT !.ingress = Tail(@), !.sf_msg = Head(c.ingress),
                         !.sf = "send"]}
         ELSE {}
    ELSE {}

\* async flavours: the select! branch `msg = to_inner_rx.recv()`:
\* Some(msg), or None once the outer sender is dropped and ingress is drained.
SfSelectRecv(c, ok) ==
    IF c.flavour # "blocking" /\ c.sf = "select"
    THEN IF c.ingress # <<>>
         THEN {[c EXCEPT !.ingress = Tail(@), !.sf_msg = Head(c.ingress),
                         !.sf = "send"]}
         ELSE IF c.outer_tx THEN {}
         ELSE {[c EXCEPT !.sf = "closing"]}
    ELSE {}

\* async flavours: the select! branch `_ = &mut close_signal_rx`, ready when
\* the signal was sent or its sender dropped: to_inner_rx.close(); break.
SfSelectSignal(c, ok) ==
    IF c.flavour # "blocking" /\ c.sf = "select" /\ c.close_signal # "empty"
    THEN {[c EXCEPT !.to_inner_rx = "closed", !.sf = "closing"]}
    ELSE {}

\* variant: a send to the real channel whose receiver is gone waits
SfSend_WaitsOnGone(c, ok) ==
    IF c.sf = "send" /\ c.inner_rx /\ HasRoom(c, c.inner)
    THEN {[c EXCEPT !.inner = Append(@, c.sf_msg), !.sf_msg = NoMsg,
                    !.sf = "emit"]}
    ELSE {}

\* inner_tx.send(msg): Err when the inner receiver is gone (the message is
\* lost and the forwarder breaks; the async flavours close to_inner_rx
\* first), Ok when the real channel has room, else the send waits.
SfSend(c, ok) ==
    IF c.sf = "send"
    THEN IF ~c.inner_rx
         THEN {[c EXCEPT !.sf_msg = NoMsg, !.sf = "closing",
                         !.to_inner_rx =
                             IF c.flavour = "blocking" THEN @ ELSE "closed"]}
         ELSE IF HasRoom(c, c.inner)
         THEN {[c EXCEPT !.inner = Append(@, c.sf_msg), !.sf_msg = NoMsg,
                         !.sf = "emit"]}
         ELSE {}
    ELSE {}

\* the send has returned; let _ = stats_tx_send.send(MessageSent{..}): the
\* result is discarded.
\* variant: `if stats_tx_send.send(..).is_err() { break; }`
SfEmit_BreakOnErr(c, ok) ==
    IF c.sf = "emit" /\ Flushed(c, c.inner, c.inner_rx)
    THEN {[c EXCEPT !.sf = IF ~ok THEN "closing"
                            ELSE IF c.flavour = "blocking" THEN "check"
                            ELSE "select"]}
    ELSE {}

SfEmit(c, ok) ==
    IF c.sf = "emit" /\ Flushed(c, c.inner, c.inner_rx)
    THEN {[c EXCEPT !.sf = IF c.flavour = "blocking" THEN "check" ELSE "select"]}
    ELSE {}

\* after the loop: let _ = stats_tx_send.send(Closed{id}); then the closure
\* returns: to_inner_rx (with what ingress still buffers), inner_tx and
\* close_signal_rx are dropped.
SfExit(c, ok) ==
    IF c.sf = "closing"
    THEN {[c EXCEPT !.sf = "done", !.to_inner_rx = "dropped",
                    !.ingress = <<>>, !.inner_tx = FALSE]}
    ELSE {}

\* ---- recv forwarder (inner -> outer) ------------------------------------
\* (mutant) the end of the real channel is not noticed.
RfRecv_NoEnd(c, ok) ==
    IF c.rf = "recv" /\ c.inner # <<>>
    THEN {[c EXCEPT !.inner = Tail(@), !.rf_msg = Head(c.inner), !.rf = "send"]}
    ELSE {}

\* inner_rx.recv() / inner_rx.next(): a message, or the end of the channel
\* once inner_tx is dropped and the real channel is drained.
RfRecv(c, ok) ==
    IF c.rf = "recv"
    THEN IF c.inner # <<>>
         THEN {[c EXCEPT !.inner = Tail(@), !.rf_msg = Head(c.inner),
                         !.rf = "send"]}
         ELSE IF c.inner_tx THEN {}
         ELSE {[c EXCEPT !.rf = "closing"]}
    ELSE {}

\* tokio flavour only: the select! branch `_ = from_inner_tx.closed()`.
RfSelectClosed(c, ok) ==
    IF c.flavour = "tokio" /\ c.rf = "recv" /\ ~c.outer_rx
    THEN {[c EXCEPT !.close_signal = "sent", !.rf = "closing"]}
    ELSE {}

\* (mutant) the forwarded message is put at the head of egress.
RfSend_Reorder(c, ok) ==
    IF c.rf = "send"
    THEN IF ~c.outer_rx
         THEN {[c EXCEPT !.rf_msg = NoMsg, !.close_signal = "sent",
                         !.rf = "closing"]}
         ELSE IF HasRoom(c, c.egress)
         THEN {[c EXCEPT !.egress = <<c.rf_msg>> \o @, !.rf_msg = NoMsg,
                         !.rf = "emit"]}
         ELSE {}
    ELSE {}

\* (mutant) a failed egress send is ignored: no close signal, no break.
RfSend_NoSignal(c, ok) ==
    IF c.rf = "send"
    THEN IF ~c.outer_rx
         THEN {[c EXCEPT !.rf_msg = NoMsg, !.rf = "recv"]}
         ELSE IF HasRoom(c, c.egress)
         THEN {[c EXCEPT !.egress = Append(@, c.rf_msg), !.rf_msg = NoMsg,
                         !.rf = "emit"]}
         ELSE {}
    ELSE {}

\* variant: the loop goes on without emitting MessageReceived
RfSend_SkipEmit(c, ok) ==
    IF c.rf = "send"
    THEN IF ~c.outer_rx
         THEN {[c EXCEPT !.rf_msg = NoMsg, !.close_signal = "sent",
                         !.rf = "closing"]}
         ELSE IF HasRoom(c, c.egress)
         THEN {[c EXCEPT !.egress = Append(@, c.rf_msg), !.rf_msg = NoMsg,
                         !.rf = "recv"]}
         ELSE {}
    ELSE {}

\* from_inner_tx.send(msg): Err when the outer receiver is gone (fire the
\* close signal and break), Ok when egress has room, else the send waits.
RfSend(c, ok) ==
    IF c.rf = "send"
    THEN IF ~c.outer_rx
         THEN {[c EXCEPT !.rf_msg = NoMsg, !.close_signal = "sent",
                         !.rf = "closing"]}
         ELSE IF HasRoom(c, c.egress)
         THEN {[c EXCEPT !.egress = Append(@, c.rf_msg), !.rf_msg = NoMsg,
                         !.rf = "emit"]}
         ELSE {}
    ELSE {}

\* let _ = stats_tx_recv.send(MessageReceived{..}): the result is discarded.
RfEmit(c, ok) ==
    IF c.rf = "emit" /\ Flushed(c, c.egress, c.outer_rx)
    THEN {[c EXCEPT !.rf = "recv"]}
    ELSE {}

\* after the loop: let _ = stats_tx_recv.send(Closed{id}); then the closure
\* returns: inner_rx (with what the real channel still buffers),
\* from_inner_tx and close_signal_tx are dropped.
RfExit(c, ok) ==
    IF c.rf = "closing"
    THEN {[c EXCEPT !.rf = "done", !.inner_rx = FALSE, !.inner = <<>>,
                    !.from_inner_tx = FALSE,
                    !.close_signal = IF @ = "empty" THEN "dropped" ELSE @]}
    ELSE {}

\* ------------------------------------------------------ the stats collector
Max(a, b) == IF a >= b THEN a ELSE b

\* ChannelStats::new
ChannelStatsNew(id, source, label, ct, iter) ==
    [ kind |-> "Channel",
      id |-> id, source |-> source, label |-> label,
      channel_type |-> ct, state |-> "Active",
      sent_count |-> 0, received_count |-> 0,
      sent_logs |-> <<>>, received_logs |-> <<>>, iter |-> iter ]

\* variant: a stream record starts with the default state of a full channel
StreamStatsNew_Full(id, source, label, iter) ==
    [ kind |-> "Stream",
      id |-> id, source |-> source, label |-> label, state |-> "Full",
      items_yielded |-> 0, yielded_logs |-> <<>>, iter |-> iter ]

\* StreamStats::new
StreamStatsNew(id, source, label, iter) ==
    [ kind |-> "Stream",
      id |-> id, source |-> source, label |-> label, state |-> "Active",
      items_yielded |-> 0, yielded_logs |-> <<>>, iter |-> iter ]

\* if let Some(Stats::Channel(..)) = stats.get_mut(&id)
IsChannel(tbl, id) == id \in DOMAIN tbl /\ tbl[id].kind = "Channel"

\* if let Some(Stats::Stream(..)) = stats.get_mut(&id)
IsStream(tbl, id) == id \in DOMAIN tbl /\ tbl[id].kind = "Stream"

\* variant: without the second saturating_sub
queued_NoInFlight(r) == Max(r.sent_count - r.received_count, 0)

\* ChannelStats::queued: sent.saturating_sub(received).saturating_sub(1)
queued(r) == Max(Max(r.sent_count - r.received_count, 0) - 1, 0)

\* variant: a counting event never changes the state
update_state_Keep(r) == r

\* ChannelStats::update_state
update_state(r) ==
    IF r.state = "Closed" \/ r.state = "Notified" THEN r
    ELSE LET is_full ==
                 CASE r.channel_type.kind = "Bounded" ->
                          queued(r) >= r.channel_type.cap
                   [] r.channel_type.kind = "Oneshot" -> queued(r) >= 1
                   [] OTHER -> FALSE
         IN [r EXCEPT !.state = IF is_full THEN "Full" ELSE "Active"]

\* LogEntry::new: the timestamp is the time since START_TIME, the origin of
\* the clock
LogEntryNew(index, timestamp) == [index |-> index, timestamp |-> timestamp]

\* variant: the newest entry is evicted instead of the oldest
PushLog_PopBack(logs, entry, limit) ==
    Append(IF Len(logs) >= limit /\ logs # <<>>
           THEN SubSeq(logs, 1, Len(logs) - 1) ELSE logs, entry)

\* variant: the ring never evicts
PushLog_NoEvict(logs, entry, limit) == Append(logs, entry)

\* if logs.len() >= limit { logs.pop_front(); } logs.push_back(entry)
PushLog(logs, entry, limit) ==
    Append(IF Len(logs) >= limit /\ logs # <<>> THEN Tail(logs) ELSE logs, entry)

\* variant: only records of the same kind are counted
SameSourceCount_SameKind(tbl, source, kind) ==
    Cardinality({i \in DOMAIN tbl :
                    tbl[i].source = source /\ tbl[i].kind = kind})

\* stats.values().filter(|s| s.source() == source).count()
SameSourceCount(tbl, source, kind) ==
    Cardinality({i \in DOMAIN tbl : tbl[i].source = source})

\* resolve_label with no label provided: the base label, then "-<iter + 1>"
\* when iter > 0; the text is kept as its parts.
resolve_label(source, iter) ==
    IF iter > 0 THEN <<source, "-", iter + 1>> ELSE <<source>>

\* One iteration of the collector loop: the effect of `event` on the table.
Apply(tbl, ev, limit) ==
    CASE ev.type = "Created" ->
             LET iter == SameSourceCount(tbl, ev.source, "Channel")
                 rec == ChannelStatsNew(ev.id, ev.source, ev.display_label,
                                        ev.channel_type, iter)
             IN [i \in DOMAIN tbl \cup {ev.id} |-> IF i = ev.id THEN rec ELSE tbl[i]]
      [] ev.type = "StreamCreated" ->
             LET iter == SameSourceCount(tbl, ev.source, "Stream")
                 rec == StreamStatsNew(ev.id, ev.source, ev.display_label, iter)
             IN [i \in DOMAIN tbl \cup {ev.id} |-> IF i = ev.id THEN rec ELSE tbl[i]]
      [] ev.type = "MessageSent" /\ IsChannel(tbl, ev.id) ->
             LET r1 == update_state([tbl[ev.id] EXCEPT !.sent_count = @ + 1])
             IN [tbl EXCEPT ![ev.id] =
                     [r1 EXCEPT !.sent_logs =
                          PushLog(@, LogEntryNew(r1.sent_count, ev.timestamp),
                                  limit)]]
      [] ev.type = "MessageReceived" /\ IsChannel(tbl, ev.id) ->
             LET r1 == update_state([tbl[ev.id] EXCEPT !.received_count = @ + 1])
             IN [tbl EXCEPT ![ev.id] =
                     [r1 EXCEPT !.received_logs =
                          PushLog(@, LogEntryNew(r1.received_count,
                                             ev.timestamp), limit)]]
      [] ev.type = "Closed" /\ ev.id \in DOMAIN tbl ->
             [tbl EXCEPT ![ev.id].state = "Closed"]
      [] ev.type = "Notified" /\ IsChannel(tbl, ev.id) ->
             [tbl EXCEPT ![ev.id].state = "Notified"]
      [] ev.type = "StreamItemYielded" /\ IsStream(tbl, ev.id) ->
             LET r1 == [tbl[ev.id] EXCEPT !.items_yielded = @ + 1]
             IN [tbl EXCEPT ![ev.id] =
                     [r1 EXCEPT !.yielded_logs =
                          PushLog(@, LogEntryNew(r1.items_yielded,
                                             ev.timestamp), limit)]]
      [] ev.type = "StreamCompleted" /\ IsStream(tbl, ev.id) ->
             [tbl EXCEPT ![ev.id].state = "Closed"]
      [] OTHER -> tbl

\* the environment: CHANNELS_CONSOLE_LOG_LIMIT is unset (None) or holds the
\* decimal text of an integer (Some(n)).
EnvUnset == [CHANNELS_CONSOLE_LOG_LIMIT |-> None, now |-> 0]

\* get_log_limit(): var(..).ok().and_then(|s| s.parse().ok())
\*                      .unwrap_or(DEFAULT_LOG_LIMIT)
\* parse::<usize>() fails on the text of a negative number.
get_log_limit(e) ==
    IF e.CHANNELS_CONSOLE_LOG_LIMIT = None THEN DEFAULT_LOG_LIMIT
    ELSE IF unwrap(e.CHANNELS_CONSOLE_LOG_LIMIT) < 0 THEN DEFAULT_LOG_LIMIT
    ELSE unwrap(e.CHANNELS_CONSOLE_LOG_LIMIT)

\* while let Ok(event) = rx.recv() { ... }
CollectorStep ==
    /\ events # <<>>
    /\ stats' = Apply(stats, Head(events), get_log_limit(env))
    /\ events' = Tail(events)
    /\ UNCHANGED <<w, w2, o, collectorUp, site, env, strm, http, app>>

\* -------------------------------------- specification: one wrapped MPSC pair
ChanId == 0
ChanSource == "main.rs:10"
NoChan == [flavour |-> "none"]
NoSite == [next_id |-> 0]
NoStream == [flavour |-> "none"]
NoRequest == [status |-> 0]
NoApp == [focus |-> "none"]

ChannelTypeOf(c) == IF c.bounded THEN Bounded(c.capacity) ELSE Unbounded

\* The state right after wrap_*_impl returns: the id is allocated, Created is
\* emitted and both forwarders are spawned.
InitWith(budget) ==
    /\ \E fl \in Flavours, bd \in BOOLEAN, cap \in Caps :
          /\ bd \/ cap = 1
          /\ w = WrapInit(fl, bd, IF bd THEN cap ELSE 0, budget)
    /\ w2 = NoChan
    /\ o = NoChan
    /\ collectorUp \in BOOLEAN
    /\ events = Emit(<<>>, Created(ChanId, ChanSource, ChannelTypeOf(w)), collectorUp)
    /\ stats = << >>
    /\ site = NoSite
    /\ env = EnvUnset /\ strm = NoStream /\ http = NoRequest /\ app = NoApp

Init == InitWith(MaxMsgs)
LiveInit == InitWith(LiveMsgs)

\* A step of the wrapper `S` (the successors of w), emitting `evs`.
WStep(S, evs) ==
    /\ \E n \in S : w' = n
    /\ events' = IF EmitOk(collectorUp) THEN events \o evs ELSE events
    /\ UNCHANGED <<w2, o, stats, collectorUp, site, env, strm, http, app>>

\* the user's threads / tasks holding outer_tx and outer_rx
UserSendNext ==
    \/ WStep(UserSend(w, collectorUp), <<>>)
    \/ WStep(UserSendErr(w, collectorUp), <<>>)
    \/ WStep(TxDrop(w, collectorUp), <<>>)

UserRecvNext ==
    \/ WStep(UserRecv(w, collectorUp), <<>>)
    \/ WStep(UserRecvClosed(w, collectorUp), <<>>)

UserRxDrop == WStep(RxDrop(w, collectorUp), <<>>)

\* the send forwarder thread / task
SfNext ==
    \/ WStep(SfCheck(w, collectorUp), <<>>)
    \/ WStep(SfRecv(w, collectorUp), <<>>)
    \/ WStep(SfSelectRecv(w, collectorUp), <<>>)
    \/ WStep(SfSelectSignal(w, collectorUp), <<>>)
    \/ WStep(SfSend(w, collectorUp), <<>>)
    \/ WStep(SfEmit(w, collectorUp), <<MessageSent(ChanId)>>)
    \/ WStep(SfExit(w, collectorUp), <<Closed(ChanId)>>)

\* the recv forwarder thread / task
RfNext ==
    \/ WStep(RfRecv(w, collectorUp), <<>>)
    \/ WStep(RfSelectClosed(w, collectorUp), <<>>)
    \/ WStep(RfSend(w, collectorUp), <<>>)
    \/ WStep(RfEmit(w, collectorUp), <<MessageReceived(ChanId)>>)
    \/ WStep(RfExit(w, collectorUp), <<Closed(ChanId)>>)

Next ==
    \/ UserSendNext
    \/ UserRecvNext
    \/ UserRxDrop
    \/ SfNext
    \/ RfNext
    \/ CollectorStep

Spec == Init /\ [][Next]_vars

\* Both forwarders and the collector are scheduled fairly (OS threads, tasks
\* of the multi-threaded runtime); the user receiver keeps receiving while it
\* is alive.  The user sender and the drops are not forced.
LiveSpec ==
    /\ LiveInit /\ [][Next]_vars
    /\ WF_vars(SfNext) /\ WF_vars(RfNext) /\ WF_vars(CollectorStep)
    /\ WF_vars(UserRecvNext)

\* ------------------------------------------------------------------ claims
IsPrefix(s, t) == Len(s) <= Len(t) /\ \A i \in 1..Len(s) : s[i] = t[i]
Range(s) == {s[i] : i \in 1..Len(s)}

\* C1: what the user receiver has obtained is at every moment a prefix of
\* what the user sender sent: no reordering, duplication or invention.
C1_ReceivedIsPrefixOfSent == IsPrefix(w.rcvd, w.sent)

C1_Witness == Len(w.rcvd) >= 2 /\ Len(w.sent) > Len(w.rcvd)

\* C2: with the user receiver alive and receiving, every message whose user
\* send succeeded is eventually received, also when the sender is dropped
\* while the message is still buffered in the ingress proxy.
\* (rcvd only grows and is a prefix of sent, so "again and again everything
\* sent so far has been received" says that each sent message is received.)
C2_EverySentIsReceived == []<>(w.rcvd = w.sent \/ ~w.outer_rx)

C2_Witness ==
    /\ ~w.outer_tx /\ w.outer_rx /\ w.sf = "done" /\ w.rf = "done"
    /\ w.rcvd = w.sent /\ Len(w.sent) = LiveMsgs

\* C3 (as claimed): with the user receiver receiving nothing, at most
\* `capacity` user sends complete on a wrapped bounded channel.
C3_AtMostCapSendsComplete ==
    (w.bounded /\ w.flavour = "blocking" /\ w.outer_rx /\ w.rcvd = <<>>)
        => Len(w.sent) <= w.capacity

\* C4: once the user receiver is dropped and the drop can be noticed (the
\* tokio recv forwarder watches closed(); the others notice it when a message
\* is on its way to egress), user sends fail from some point on, for good.
Upstream(c) ==
    c.ingress # <<>> \/ c.sf_msg # NoMsg \/ c.inner # <<>> \/ c.rf_msg # NoMsg

C4_SendsEventuallyFail ==
    /\ (~w.outer_rx /\ (w.flavour = "tokio" \/ Upstream(w)))
           ~> (w.to_inner_rx # "open")
    /\ [][w.to_inner_rx # "open" => w'.to_inner_rx # "open"]_vars

C4_Witness ==
    ~w.outer_rx /\ w.outer_tx /\ w.send_err /\ w.flavour = "blocking"

\* C5: after the user sender is dropped the user receiver (if it keeps
\* receiving) observes closure, and the record's state becomes Closed and
\* stays Closed.
RecordClosed == ChanId \in DOMAIN stats /\ stats[ChanId].state = "Closed"

\* (a dropped sender stays dropped, so "again and again: not dropped, or
\* closure observed and the record Closed" says that the drop leads to both.)
C5_SenderDropCloses ==
    /\ []<>(w.outer_tx \/ ( /\ w.recv_closed \/ ~w.outer_rx
                            /\ collectorUp => RecordClosed ))
    /\ [][RecordClosed => RecordClosed']_vars

C5_Witness ==
    /\ ~w.outer_tx /\ w.outer_rx /\ w.recv_closed /\ w.rcvd # <<>>
    /\ ChanId \in DOMAIN stats /\ stats[ChanId].state = "Closed"
    /\ events = <<>>

\* C6: while both user handles are alive neither forwarder exits, no Closed
\* event is emitted and no user send fails with disconnected / closed.
NoClosedEvent ==
    /\ \A i \in 1..Len(events) : events[i].type # "Closed"
    /\ \A id \in DOMAIN stats : stats[id].state # "Closed"

C6_AliveMeansOpen ==
    (w.outer_tx /\ w.outer_rx) =>
        /\ w.sf \notin {"closing", "done"}
        /\ w.rf \notin {"closing", "done"}
        /\ NoClosedEvent
        /\ UserSendErr(w, collectorUp) = {}
        /\ ~w.send_err

\* a slow consumer: every buffer is full and both forwarders hold a message
C6_Witness ==
    /\ w.outer_tx /\ w.outer_rx /\ w.bounded /\ w.rcvd = <<>>
    /\ UserSend(w, collectorUp) = {} /\ w.ingress # <<>>
    /\ w.sf = "send" /\ w.rf = "send"

\* ------------------------------------------------ the wrapped oneshot pair
\* outer: the proxy outer_tx -> outer_rx_proxy; inner: the real channel;
\* egress: the proxy inner_tx_proxy -> outer_rx.  mt is the task that
\* monitors the receiving side, st the task that forwards the send.
OneshotInit ==
    [ flavour |-> "oneshot",
      user_tx |-> "alive", send_result |-> "none", rx_gone_at_send |-> FALSE,
      outer |-> "empty", outer_rx_proxy |-> TRUE,
      inner |-> "empty", inner_tx |-> "alive", inner_rx |-> TRUE,
      egress |-> "empty", inner_tx_proxy |-> "alive",
      user_rx |-> "alive",
      close_signal |-> "empty",
      mt |-> "select", message_received |-> FALSE,
      st |-> "select", message_sent |-> FALSE ]

\* ---- user side ----------------------------------------------------------
\* outer_tx.send(v): Err iff outer_rx_proxy is already dropped.
OsUserSend(c) ==
    IF c.user_tx = "alive"
    THEN {[c EXCEPT !.user_tx = "sent",
                    !.rx_gone_at_send = (c.user_rx = "dropped"),
                    !.send_result = IF c.outer_rx_proxy THEN "ok" ELSE "err",
                    !.outer = IF c.outer_rx_proxy THEN "value" ELSE @]}
    ELSE {}

\* drop(outer_tx) without sending
OsTxDrop(c) ==
    IF c.user_tx = "alive" THEN {[c EXCEPT !.user_tx = "dropped"]} ELSE {}

\* outer_rx.await: Ok(v), or Err once inner_tx_proxy is dropped unsent.
OsUserRecv(c) ==
    IF c.user_rx = "alive"
    THEN IF c.egress = "value"
         THEN {[c EXCEPT !.user_rx = "got", !.egress = "taken"]}
         ELSE IF c.inner_tx_proxy = "dropped"
         THEN {[c EXCEPT !.user_rx = "closed"]}
         ELSE {}
    ELSE {}

\* drop(outer_rx)
OsRxDrop(c) ==
    IF c.user_rx = "alive" THEN {[c EXCEPT !.user_rx = "dropped"]} ELSE {}

\* ---- monitor task -------------------------------------------------------
\* select! branch `msg = inner_rx.take().unwrap().await`: Ok(msg), or Err
\* when inner_tx was dropped without a value.
MtSelectRecv(c) ==
    IF c.mt = "select"
    THEN IF c.inner = "value"
         THEN {[c EXCEPT !.inner = "taken", !.inner_rx = FALSE, !.mt = "fwd"]}
         ELSE IF c.inner_tx = "dropped"
         THEN {[c EXCEPT !.inner_rx = FALSE, !.mt = "fin"]}
         ELSE {}
    ELSE {}

\* select! branch `_ = inner_tx_proxy.closed()` (futures: the 10 ms
\* is_canceled() poll): drop(inner_rx); let _ = close_signal_tx.send(()).
MtSelectClosed(c) ==
    IF c.mt = "select" /\ c.user_rx = "dropped"
    THEN {[c EXCEPT !.inner_rx = FALSE, !.close_signal = "sent", !.mt = "fin"]}
    ELSE {}

\* inner_tx_proxy.send(msg): Ok iff the outer receiver is alive.
MtFwd(c) ==
    IF c.mt = "fwd"
    THEN IF c.user_rx = "alive"
         THEN {[c EXCEPT !.egress = "value", !.inner_tx_proxy = "sent",
                         !.mt = "emit"]}
         ELSE {[c EXCEPT !.inner_tx_proxy = "dropped", !.mt = "fin"]}
    ELSE {}

\* let _ = stats_tx_recv.send(MessageReceived{..}); message_received = true
MtEmit(c) ==
    IF c.mt = "emit"
    THEN {[c EXCEPT !.message_received = TRUE, !.mt = "fin"]}
    ELSE {}

\* variant: Closed emitted whether or not the value was delivered
MtFinEvents_Always(c, id) == <<Closed(id)>>

\* if !message_received { send(Closed{id}) }
MtFinEvents(c, id) == IF ~c.message_received THEN <<Closed(id)>> ELSE <<>>

\* the task ends: inner_tx_proxy and close_signal_tx are dropped.
MtFin(c) ==
    IF c.mt = "fin"
    THEN {[c EXCEPT !.mt = "done",
                    !.inner_tx_proxy = IF @ = "alive" THEN "dropped" ELSE @,
                    !.close_signal = IF @ = "empty" THEN "dropped" ELSE @]}
    ELSE {}

\* ---- send task ----------------------------------------------------------
\* select! branch `msg = outer_rx_proxy`: Ok(msg), or Err when outer_tx was
\* dropped without a value.  The select consumes outer_rx_proxy.
StSelectRecv(c) ==
    IF c.st = "select"
    THEN IF c.outer = "value"
         THEN {[c EXCEPT !.outer = "taken", !.outer_rx_proxy = FALSE,
                         !.st = "fwd"]}
         ELSE IF c.user_tx = "dropped"
         THEN {[c EXCEPT !.outer_rx_proxy = FALSE, !.st = "fin"]}
         ELSE {}
    ELSE {}

\* select! branch `_ = &mut close_signal_rx`: the outer receiver was dropped
\* (or the monitor task ended) before a value was taken.
StSelectSignal(c) ==
    IF c.st = "select" /\ c.close_signal # "empty"
    THEN {[c EXCEPT !.outer_rx_proxy = FALSE, !.st = "fin"]}
    ELSE {}

\* inner_tx.send(msg): Ok iff the inner receiver is alive.
StFwd(c) ==
    IF c.st = "fwd"
    THEN IF c.inner_rx
         THEN {[c EXCEPT !.inner = "value", !.inner_tx = "sent",
                         !.st = "emitSent"]}
         ELSE {[c EXCEPT !.inner_tx = "dropped", !.st = "fin"]}
    ELSE {}

\* let _ = stats_tx_send.send(MessageSent{..})
StEmitSent(c) ==
    IF c.st = "emitSent" THEN {[c EXCEPT !.st = "emitNotified"]} ELSE {}

\* let _ = stats_tx_send.send(Notified{id}); message_sent = true
StEmitNotified(c) ==
    IF c.st = "emitNotified"
    THEN {[c EXCEPT !.message_sent = TRUE, !.st = "fin"]}
    ELSE {}

\* if !message_sent { send(Closed{id}) }
StFinEvents(c, id) == IF ~c.message_sent THEN <<Closed(id)>> ELSE <<>>

\* the task ends: inner_tx is dropped if it was not used.
StFin(c) ==
    IF c.st = "fin"
    THEN {[c EXCEPT !.st = "done",
                    !.inner_tx = IF @ = "alive" THEN "dropped" ELSE @]}
    ELSE {}

\* ----------------------------------- specification: one wrapped oneshot pair
OneshotId == 0
OneshotSource == "main.rs:20"

OneshotSpecInit ==
    /\ o = OneshotInit
    /\ w = NoChan
    /\ w2 = NoChan
    /\ collectorUp \in BOOLEAN
    /\ events = Emit(<<>>, Created(OneshotId, OneshotSource, Oneshot), collectorUp)
    /\ stats = << >>
    /\ site = NoSite
    /\ env = EnvUnset /\ strm = NoStream /\ http = NoRequest /\ app = NoApp

OStep(S, evs) ==
    /\ \E n \in S : o' = n
    /\ events' = IF EmitOk(collectorUp) THEN events \o evs ELSE events
    /\ UNCHANGED <<w, w2, stats, collectorUp, site, env, strm, http, app>>

OsUserNext ==
    \/ OStep(OsUserSend(o), <<>>)
    \/ OStep(OsTxDrop(o), <<>>)
    \/ OStep(OsRxDrop(o), <<>>)

OsUserRecvNext == OStep(OsUserRecv(o), <<>>)

MtNext ==
    \/ OStep(MtSelectRecv(o), <<>>)
    \/ OStep(MtSelectClosed(o), <<>>)
    \/ OStep(MtFwd(o), <<>>)
    \/ OStep(MtEmit(o), <<MessageReceived(OneshotId)>>)
    \/ OStep(MtFin(o), MtFinEvents(o, OneshotId))

StNext ==
    \/ OStep(StSelectRecv(o), <<>>)
    \/ OStep(StSelectSignal(o), <<>>)
    \/ OStep(StFwd(o), <<>>)
    \/ OStep(StEmitSent(o), <<MessageSent(OneshotId)>>)
    \/ OStep(StEmitNotified(o), <<Notified(OneshotId)>>)
    \/ OStep(StFin(o), StFinEvents(o, OneshotId))

OneshotNext ==
    \/ OsUserNext
    \/ OsUserRecvNext
    \/ MtNext
    \/ StNext
    \/ CollectorStep

OneshotSpec == OneshotSpecInit /\ [][OneshotNext]_vars

\* Both wrapper tasks and the collector are scheduled fairly; the user
\* receiver, while alive, awaits the value.
OneshotLive ==
    /\ OneshotSpecInit /\ [][OneshotNext]_vars
    /\ WF_vars(MtNext) /\ WF_vars(StNext) /\ WF_vars(CollectorStep)
    /\ WF_vars(OsUserRecvNext)

\* the record of a oneshot whose value was delivered
OneshotHappyRecord ==
    /\ OneshotId \in DOMAIN stats
    /\ stats[OneshotId].state = "Notified"
    /\ stats[OneshotId].sent_count = 1
    /\ stats[OneshotId].received_count = 1
    /\ queued(stats[OneshotId]) = 0
    /\ Len(stats[OneshotId].sent_logs) = 1
    /\ Len(stats[OneshotId].received_logs) = 1

\* C7: when the value was sent and the user receiver received it, the record
\* ends, and stays, Notified with sent_count = received_count = 1,
\* queued = 0, one sent log and one received log.
C7_HappyPathNotified ==
    <>[]((o.user_rx = "got" /\ collectorUp) => OneshotHappyRecord)

C7_Witness == o.user_rx = "got" /\ OneshotHappyRecord /\ events = <<>>

\* C8 (as claimed): when the user receiver was dropped before the user
\* sender sends, the send fails and the record is never Notified.
C8_SendAfterRxDropFails ==
    (o.rx_gone_at_send /\ o.user_tx = "sent") =>
        /\ o.send_result = "err"
        /\ OneshotId \in DOMAIN stats => stats[OneshotId].state # "Notified"

\* ------------------- specification: the same channel with and without collector
\* Two copies of one wrapped channel run the same schedule: in w every emit
\* succeeds (collector thread alive), in w2 every emit fails (event receiver
\* gone).  A step that is enabled in one copy only is taken by that copy
\* alone.
NiInit ==
    /\ \E fl \in Flavours, bd \in BOOLEAN, cap \in Caps :
          /\ bd \/ cap = 1
          /\ w = WrapInit(fl, bd, IF bd THEN cap ELSE 0, MaxMsgs)
    /\ w2 = w
    /\ o = NoChan
    /\ collectorUp = TRUE
    /\ events = Emit(<<>>, Created(ChanId, ChanSource, ChannelTypeOf(w)), TRUE)
    /\ stats = << >>
    /\ site = NoSite
    /\ env = EnvUnset /\ strm = NoStream /\ http = NoRequest /\ app = NoApp

NiStep(S, S2, evs) ==
    /\ S # {} \/ S2 # {}
    /\ \E n \in (IF S = {} THEN {w} ELSE S) : w' = n
    /\ \E n \in (IF S2 = {} THEN {w2} ELSE S2) : w2' = n
    /\ events' = IF S # {} THEN events \o evs ELSE events
    /\ UNCHANGED <<o, stats, collectorUp, site, env, strm, http, app>>

NiNext ==
    \/ NiStep(UserSend(w, TRUE), UserSend(w2, FALSE), <<>>)
    \/ NiStep(UserSendErr(w, TRUE), UserSendErr(w2, FALSE), <<>>)
    \/ NiStep(TxDrop(w, TRUE), TxDrop(w2, FALSE), <<>>)
    \/ NiStep(UserRecv(w, TRUE), UserRecv(w2, FALSE), <<>>)
    \/ NiStep(UserRecvClosed(w, TRUE), UserRecvClosed(w2, FALSE), <<>>)
    \/ NiStep(RxDrop(w, TRUE), RxDrop(w2, FALSE), <<>>)
    \/ NiStep(SfCheck(w, TRUE), SfCheck(w2, FALSE), <<>>)
    \/ NiStep(SfRecv(w, TRUE), SfRecv(w2, FALSE), <<>>)
    \/ NiStep(SfSelectRecv(w, TRUE), SfSelectRecv(w2, FALSE), <<>>)
    \/ NiStep(SfSelectSignal(w, TRUE), SfSelectSignal(w2, FALSE), <<>>)
    \/ NiStep(SfSend(w, TRUE), SfSend(w2, FALSE), <<>>)
    \/ NiStep(SfEmit(w, TRUE), SfEmit(w2, FALSE), <<MessageSent(ChanId)>>)
    \/ NiStep(SfExit(w, TRUE), SfExit(w2, FALSE), <<Closed(ChanId)>>)
    \/ NiStep(RfRecv(w, TRUE), RfRecv(w2, FALSE), <<>>)
    \/ NiStep(RfSelectClosed(w, TRUE), RfSelectClosed(w2, FALSE), <<>>)
    \/ NiStep(RfSend(w, TRUE), RfSend(w2, FALSE), <<>>)
    \/ NiStep(RfEmit(w, TRUE), RfEmit(w2, FALSE), <<MessageReceived(ChanId)>>)
    \/ NiStep(RfExit(w, TRUE), RfExit(w2, FALSE), <<Closed(ChanId)>>)
    \/ CollectorStep

NiSpec == NiInit /\ [][NiNext]_vars

\* what the user of a wrapped channel can observe
UserView(c) ==
    [ sent |-> c.sent, rcvd |-> c.rcvd,
      send_err |-> c.send_err, recv_closed |-> c.recv_closed,
      can_send |-> UserSend(c, TRUE) # {},
      send_fails |-> UserSendErr(c, TRUE) # {},
      can_recv |-> UserRecv(c, TRUE) # {},
      sees_closed |-> UserRecvClosed(c, TRUE) # {} ]

\* where the forwarders are and what they still carry
ForwarderView(c) ==
    [ sf |-> c.sf, rf |-> c.rf, sf_msg |-> c.sf_msg, rf_msg |-> c.rf_msg,
      ingress |-> c.ingress, inner |-> c.inner, egress |-> c.egress ]

\* C9: under the same schedule the copy whose emits all fail shows its user
\* the same sends, failures, received values and closure as the copy whose
\* emits all succeed, and its forwarders are at the same place carrying the
\* same messages: no forwarder exits, blocks or drops a message because an
\* emit failed.
C9_EmitFailureInvisible ==
    /\ UserView(w) = UserView(w2)
    /\ ForwarderView(w) = ForwarderView(w2)

C9_Witness ==
    /\ w2.rcvd = w2.sent /\ Len(w2.sent) = MaxMsgs /\ w2.recv_closed
    /\ w2.sf = "done" /\ w2.rf = "done"
    /\ events = <<>>
    /\ ChanId \in DOMAIN stats
    /\ stats[ChanId].received_count = MaxMsgs
    /\ stats[ChanId].state = "Closed"

\* ------------------------------ specification: calls of Instrument::instrument
\* site.calls holds one record per call of instrument(); the calls run in
\* threads of their own and interleave.  capacity is the Option<usize>
\* argument, an Option<usize>.
NoId == -1
Kinds == {"std_sync", "std_unbounded", "futures_bounded", "futures_unbounded"}
CapacityArgs == {None} \cup {Some(n) : n \in Caps}

\* the impls that start with `if capacity.is_none() { panic!(..) }`
NeedsCapacity(kind) == kind \in {"std_sync", "futures_bounded"}

\* channel! expands to one source string per macro site
SiteSource(kind) ==
    CASE kind = "std_sync" -> "main.rs:11"
      [] kind = "std_unbounded" -> "main.rs:12"
      [] kind = "futures_bounded" -> "main.rs:13"
      [] OTHER -> "main.rs:14"

\* the macro site of the std unbounded pair passes label = "jobs"
SiteLabel(kind) == IF kind = "std_unbounded" THEN Some("jobs") ELSE None

CallInit(kind, capacity) ==
    [ kind |-> kind, capacity |-> capacity, pc |-> "entry",
      id |-> NoId, created |-> FALSE, forwarders |-> 0 ]

\* variant: `capacity.unwrap_or(0)` instead of the is_none() check
instrument_NoCheck(c) ==
    IF c.pc = "entry" THEN {[c EXCEPT !.pc = "alloc"]} ELSE {}

\* instrument(): the capacity check, then the call of wrap_*; the proxies
\* and the close-signal channel are created on the way to fetch_add.
instrument(c) ==
    IF c.pc = "entry"
    THEN IF NeedsCapacity(c.kind) /\ c.capacity = None
         THEN {[c EXCEPT !.pc = "panicked"]}
         ELSE {[c EXCEPT !.pc = "alloc"]}
    ELSE {}

\* variant: the counter is read but not advanced past its first value
AllocId_Reuse(c, next_id) ==
    IF c.pc = "alloc" THEN {[c EXCEPT !.id = 0, !.pc = "emit"]} ELSE {}

\* let id = CHANNEL_ID_COUNTER.fetch_add(1, Ordering::Relaxed)
AllocId(c, next_id) ==
    IF c.pc = "alloc" THEN {[c EXCEPT !.id = next_id, !.pc = "emit"]} ELSE {}

\* channel_type of the Created event
SiteChannelType(c) ==
    IF NeedsCapacity(c.kind) /\ c.capacity # None
    THEN Bounded(unwrap(c.capacity)) ELSE Unbounded

\* let _ = stats_tx.send(StatsEvent::Created {..})
EmitCreated(c) ==
    IF c.pc = "emit" THEN {[c EXCEPT !.created = TRUE, !.pc = "spawn"]} ELSE {}

\* the two forwarders are spawned and the outer pair is returned
SpawnForwarders(c) ==
    IF c.pc = "spawn"
    THEN {[c EXCEPT !.forwarders = 2, !.pc = "returned"]}
    ELSE {}

SiteInit ==
    /\ site = [next_id |-> 0, calls |-> <<>>]
    /\ env = EnvUnset /\ strm = NoStream /\ http = NoRequest /\ app = NoApp
    /\ w = NoChan
    /\ w2 = NoChan
    /\ o = NoChan
    /\ collectorUp \in BOOLEAN
    /\ events = <<>>
    /\ stats = << >>

SiteCall ==
    /\ Len(site.calls) < MaxWraps
    /\ \E kind \in Kinds, capacity \in CapacityArgs :
          site' = [site EXCEPT !.calls = Append(@, CallInit(kind, capacity))]
    /\ UNCHANGED <<w, w2, o, events, stats, collectorUp, env, strm, http, app>>

SiteStep(i, S, evs) ==
    /\ \E n \in S : site' = [site EXCEPT !.calls[i] = n]
    /\ events' = IF EmitOk(collectorUp) THEN events \o evs ELSE events
    /\ UNCHANGED <<w, w2, o, stats, collectorUp, env, strm, http, app>>

SiteAlloc(i) ==
    /\ \E n \in AllocId(site.calls[i], site.next_id) :
          site' = [site EXCEPT !.calls[i] = n, !.next_id = @ + 1]
    /\ UNCHANGED <<w, w2, o, events, stats, collectorUp, env, strm, http, app>>

SiteNext ==
    \/ SiteCall
    \/ \E i \in 1..Len(site.calls) : SiteStep(i, instrument(site.calls[i]), <<>>)
    \/ \E i \in 1..Len(site.calls) : SiteAlloc(i)
    \/ \E i \in 1..Len(site.calls) :
          SiteStep(i, EmitCreated(site.calls[i]),
                   <<CreatedWith(site.calls[i].id,
                                 SiteSource(site.calls[i].kind),
                                 SiteLabel(site.calls[i].kind),
                                 SiteChannelType(site.calls[i]))>>)
    \/ \E i \in 1..Len(site.calls) :
          SiteStep(i, SpawnForwarders(site.calls[i]), <<>>)
    \/ CollectorStep

SiteSpec == SiteInit /\ [][SiteNext]_vars

\* ids handed out so far
AllocatedIds == {site.calls[i].id : i \in 1..Len(site.calls)} \ {NoId}

\* ids for which a Created event was emitted and not lost
CreatedIds ==
    {events[k].id : k \in {j \in 1..Len(events) : events[j].type = "Created"}}
        \cup DOMAIN stats

\* C10: a call for a std SyncSender pair or a futures bounded pair without
\* capacity never gets past the is_none() test: it holds no id, emitted no Created
\* event and started no forwarder, and the id counter counts only the other
\* calls; a call with capacity present never panics.
C10_MissingCapacityPanicsFirst ==
    /\ \A i \in 1..Len(site.calls) :
          LET c == site.calls[i] IN
          /\ (NeedsCapacity(c.kind) /\ c.capacity = None) =>
                /\ c.pc \in {"entry", "panicked"}
                /\ c.id = NoId /\ ~c.created /\ c.forwarders = 0
          /\ c.capacity # None => c.pc # "panicked"
          /\ c.pc = "panicked" => (NeedsCapacity(c.kind) /\ c.capacity = None)
    /\ site.next_id = Cardinality(AllocatedIds)
    /\ CreatedIds \subseteq AllocatedIds

C10_Witness ==
    /\ Len(site.calls) = 2
    /\ site.calls[1].kind = "std_sync" /\ site.calls[1].pc = "panicked"
    /\ site.calls[2].kind = "futures_bounded" /\ site.calls[2].capacity # None
    /\ site.calls[2].pc = "returned" /\ site.calls[2].id = 0
    /\ site.next_id = 1
    /\ 0 \in DOMAIN stats /\ events = <<>>

\* C11 (as claimed): every channel record has received_count <= sent_count.
C11_ReceivedAtMostSent ==
    \A id \in DOMAIN stats : stats[id].received_count <= stats[id].sent_count

\* the collector has applied every event and no forwarder stands between a
\* channel operation and its emit
Drained ==
    /\ collectorUp /\ events = <<>> /\ ChanId \in DOMAIN stats
    /\ w.sf # "emit" /\ w.rf # "emit"

\* C12 (as claimed): after N >= 1 sends and M receives seen by the user, the
\* drained table shows sent_count >= M + 1 and received_count = M.
C12_SnapshotAfterSends ==
    (Drained /\ Len(w.sent) >= 1) =>
        /\ stats[ChanId].sent_count >= Len(w.rcvd) + 1
        /\ stats[ChanId].received_count = Len(w.rcvd)

\* C12 (amended): after N sends and M receives seen by the user, the
\* drained table shows M <= received_count <= sent_count <= N.
C12_SnapshotBetweenBounds ==
    Drained =>
        /\ Len(w.rcvd) <= stats[ChanId].received_count
        /\ stats[ChanId].received_count <= stats[ChanId].sent_count
        /\ stats[ChanId].sent_count <= Len(w.sent)

C12_Witness ==
    /\ Drained /\ Len(w.sent) = 3 /\ Len(w.rcvd) = 1
    /\ stats[ChanId].received_count = 2
    /\ stats[ChanId].sent_count = 3

\* C13 (as claimed): the record of a Bounded(cap) channel has queued <= cap.
C13_QueuedAtMostCap ==
    \A id \in DOMAIN stats :
        stats[id].channel_type.kind = "Bounded" =>
            queued(stats[id]) <= stats[id].channel_type.cap

\* C14 (as claimed): a record whose state is Closed or Notified keeps that
\* state in every later collector step.
C14_TerminalStateKept ==
    [][\A id \in DOMAIN stats :
          stats[id].state \in {"Closed", "Notified"} =>
              stats'[id].state = stats[id].state]_vars

\* ----------------------- specification: the collector under any event sequence
\* The collector loop receives, for ids whose Created / StreamCreated it
\* received before, any event in any order and applies it to the table.
\* CHANNELS_CONSOLE_LOG_LIMIT is unset, unparsable (-1), 0, 1 or MaxLimit.
Ids == 0..(MaxIds - 1)
Sources == {ChanSource, OneshotSource}
LimitEnvs ==
    {[CHANNELS_CONSOLE_LOG_LIMIT |-> v, now |-> 0] :
        v \in {None} \cup {Some(n) : n \in {-1, 0, 1, MaxLimit}}}

TableInit ==
    /\ env \in LimitEnvs
    /\ events = <<>>
    /\ stats = << >>
    /\ collectorUp = TRUE
    /\ w = NoChan /\ w2 = NoChan /\ o = NoChan
    /\ site = NoSite /\ strm = NoStream /\ http = NoRequest /\ app = NoApp

\* number of counting events (MessageSent, MessageReceived,
\* StreamItemYielded) applied to the record of id
Counted(id) ==
    IF stats[id].kind = "Channel"
    THEN stats[id].sent_count + stats[id].received_count
    ELSE stats[id].items_yielded

RECURSIVE SumCounted(_)
SumCounted(S) ==
    IF S = {} THEN 0
    ELSE LET id == CHOOSE x \in S : TRUE
         IN Counted(id) + SumCounted(S \ {id})

\* while let Ok(event) = rx.recv() { match event {..} } for one event
TableApply(ev) ==
    /\ stats' = Apply(stats, ev, get_log_limit(env))
    /\ UNCHANGED <<w, w2, o, events, collectorUp, site, env, strm, http, app>>

\* Ids are handed out by fetch_add in increasing order and the creation events
\* are applied in that order here; SiteSpec has them arrive out of order.
ApplyCreate ==
    \E id \in Ids \cap {Cardinality(DOMAIN stats)}, src \in Sources :
        \/ TableApply(Created(id, src, Bounded(1)))
        \/ TableApply(StreamCreated(id, src))

ApplyCounting ==
    \E id \in DOMAIN stats,
       t \in {"MessageSent", "MessageReceived", "StreamItemYielded"} :
        /\ SumCounted(DOMAIN stats) < MaxLogged
        /\ TableApply([type |-> t, id |-> id, timestamp |-> env.now])

ApplyLifecycle ==
    \E id \in DOMAIN stats, t \in {"Closed", "Notified", "StreamCompleted"} :
        TableApply([type |-> t, id |-> id])

TableNext ==
    \/ ApplyCreate
    \/ ApplyCounting
    \/ ApplyLifecycle

TableSpec == TableInit /\ [][TableNext]_vars

\* the log rings of a record
LogsOf(r) ==
    IF r.kind = "Channel" THEN {r.sent_logs, r.received_logs}
    ELSE {r.yielded_logs}

\* C15 (as claimed): whatever the configured limit, no log ring holds more
\* entries than the limit.
C15_LogsWithinLimit ==
    \A id \in DOMAIN stats :
        \A logs \in LogsOf(stats[id]) : Len(logs) <= get_log_limit(env)

\* the indices max(1, k - L + 1) .. k, oldest first
Recent(k, L) ==
    LET first == Max(1, k - L + 1)
    IN [i \in 1..(k - first + 1) |-> first + i - 1]

IndicesOf(logs) == [i \in 1..Len(logs) |-> logs[i].index]

\* C16: with a limit L >= 1, after k counting events a ring holds exactly the
\* entries with indices max(1, k - L + 1) .. k in increasing order, for
\* sent_logs / sent_count, received_logs / received_count and yielded_logs /
\* items_yielded.
C16_LogsAreMostRecent ==
    get_log_limit(env) >= 1 =>
        \A id \in DOMAIN stats :
            LET r == stats[id]
                L == get_log_limit(env)
            IN IF r.kind = "Channel"
               THEN /\ IndicesOf(r.sent_logs) = Recent(r.sent_count, L)
                    /\ IndicesOf(r.received_logs)
                           = Recent(r.received_count, L)
               ELSE IndicesOf(r.yielded_logs) = Recent(r.items_yielded, L)

C16_Witness ==
    /\ get_log_limit(env) = MaxLimit
    /\ \E id \in DOMAIN stats :
          /\ stats[id].kind = "Channel"
          /\ stats[id].sent_count = MaxLogged
          /\ Len(stats[id].sent_logs) = MaxLimit
          /\ Head(stats[id].sent_logs).index = MaxLogged - MaxLimit + 1

\* records sharing the source src
Siblings(src) == {i \in DOMAIN stats : stats[i].source = src}

C18_IterFollowsIdOrder ==
    \A id \in DOMAIN stats :
        stats[id].iter =
            Cardinality({j \in Siblings(stats[id].source) : j < id})

\* ------------------------------------------- specification: the metrics server
\* Texts are sequences of characters.
Str_channels == <<"/", "c", "h", "a", "n", "n", "e", "l", "s">>
Str_streams == <<"/", "s", "t", "r", "e", "a", "m", "s">>
Str_logs == <<"/", "l", "o", "g", "s">>
Slash == <<"/">>

\* u64::MAX, scaled down to two decimal digits
U64_MAX == 99

DigitOf ==
    ("0" :> 0) @@ ("1" :> 1) @@ ("2" :> 2) @@ ("3" :> 3) @@ ("4" :> 4) @@
    ("5" :> 5) @@ ("6" :> 6) @@ ("7" :> 7) @@ ("8" :> 8) @@ ("9" :> 9)

CharOf == [d \in 0..9 |-> CHOOSE ch \in DOMAIN DigitOf : DigitOf[ch] = d]

RECURSIVE DigitsValue(_, _)
DigitsValue(s, acc) ==
    IF s = <<>> THEN Some(acc)
    ELSE IF Head(s) \notin DOMAIN DigitOf THEN None
    ELSE LET v == acc * 10 + DigitOf[Head(s)]
         IN IF v > U64_MAX THEN None ELSE DigitsValue(Tail(s), v)

\* str::parse::<u64>(): an optional "+", then one or more decimal digits,
\* value at most u64::MAX; None stands for Err(_)
parse_u64(s) ==
    IF s = <<>> THEN None
    ELSE LET digits == IF Head(s) = "+" THEN Tail(s) ELSE s
         IN IF digits = <<>> THEN None ELSE DigitsValue(digits, 0)

\* u64::to_string(): the decimal digits without sign or leading zeros
RECURSIVE to_string(_)
to_string(n) ==
    IF n < 10 THEN <<CharOf[n]>>
    ELSE to_string(n \div 10) \o <<CharOf[n % 10]>>

strip_prefix(s, p) ==
    IF Len(s) >= Len(p) /\ SubSeq(s, 1, Len(p)) = p
    THEN Some(SubSeq(s, Len(p) + 1, Len(s)))
    ELSE None

strip_suffix(s, p) ==
    IF Len(s) >= Len(p) /\ SubSeq(s, Len(s) - Len(p) + 1, Len(s)) = p
    THEN Some(SubSeq(s, 1, Len(s) - Len(p)))
    ELSE None

\* request.url().split('?').next()
RECURSIVE PathOf(_)
PathOf(url) ==
    IF url = <<>> \/ Head(url) = "?" THEN <<>>
    ELSE <<Head(url)>> \o PathOf(Tail(url))

\* the record kind is not matched
get_channel_logs_AnyKind(tbl, channel_id) ==
    LET id == parse_u64(channel_id)
    IN IF id = None THEN None
       ELSE IF unwrap(id) \in DOMAIN tbl THEN Some(unwrap(id)) ELSE None

\* Some(id) stands for Some(ChannelLogs {id, ..})
get_channel_logs(tbl, channel_id) ==
    LET id == parse_u64(channel_id)
    IN IF id = None THEN None
       ELSE IF IsChannel(tbl, unwrap(id)) THEN Some(unwrap(id)) ELSE None

get_stream_logs(tbl, stream_id) ==
    LET id == parse_u64(stream_id)
    IN IF id = None THEN None
       ELSE IF IsStream(tbl, unwrap(id)) THEN Some(unwrap(id)) ELSE None

\* serde_json::to_vec of the plain response structs succeeds
respond_json == 200

\* the status code handle_request answers with
handle_request(tbl, url) ==
    LET path == PathOf(url)
        chan == strip_prefix(path, Str_channels \o Slash)
        strm_rest == strip_prefix(path, Str_streams \o Slash)
    IN IF path = Str_channels THEN respond_json
       ELSE IF path = Str_streams THEN respond_json
       ELSE IF chan # None
       THEN LET id_str == strip_suffix(unwrap(chan), Str_logs)
            IN IF id_str = None THEN 404
               ELSE LET channel_id == parse_u64(unwrap(id_str))
                    IN IF channel_id = None THEN 400
                       ELSE IF get_channel_logs(
                                   tbl, to_string(unwrap(channel_id))) # None
                       THEN respond_json
                       ELSE 404
       ELSE IF strm_rest # None
       THEN LET id_str == strip_suffix(unwrap(strm_rest), Str_logs)
            IN IF id_str = None THEN 404
               ELSE LET stream_id == parse_u64(unwrap(id_str))
                    IN IF stream_id = None THEN 400
                       ELSE IF get_stream_logs(
                                   tbl, to_string(unwrap(stream_id))) # None
                       THEN respond_json
                       ELSE 404
       ELSE 404

\* The request URLs sent to the server.
IdTexts ==
    {to_string(n) : n \in 0..MaxIds} \cup
    {<<>>, <<"+", "1">>, <<"0", "1">>, <<"-", "1">>, <<"a">>,
     <<"1", "0", "0">>, <<"1", "/", "0">>, <<"1", " ">>}

Urls ==
    {pre \o mid \o suf \o query :
        pre \in {Str_channels, Str_streams, <<"/", "x">>, <<>>},
        mid \in {<<>>} \cup {Slash \o t : t \in IdTexts},
        suf \in {<<>>, Str_logs},
        query \in {<<>>, <<"?", "a">>}}

HttpInit ==
    /\ env = EnvUnset
    /\ events = <<>>
    /\ stats = << >>
    /\ collectorUp = TRUE
    /\ w = NoChan /\ w2 = NoChan /\ o = NoChan
    /\ site = NoSite /\ strm = NoStream /\ http = NoRequest /\ app = NoApp

\* for request in server.incoming_requests() { handle_request(request) }
\* The handler keeps no state between requests: one request is followed.
Request ==
    \E url \in Urls :
        /\ http = NoRequest
        /\ http' = [url |-> url, status |-> handle_request(stats, url)]
        /\ UNCHANGED <<w, w2, o, events, stats, collectorUp, site, env, strm, app>>

HttpNext ==
    \/ ApplyCreate
    \/ Request

HttpSpec == HttpInit /\ [][HttpNext]_vars

\* the path is base/{id}/logs
IsLogsPath(p, base) ==
    /\ Len(p) >= Len(base) + 1 + Len(Str_logs)
    /\ SubSeq(p, 1, Len(base) + 1) = base \o Slash
    /\ SubSeq(p, Len(p) - Len(Str_logs) + 1, Len(p)) = Str_logs

\* the {id} of a path base/{id}/logs
IdText(p, base) == SubSeq(p, Len(base) + 2, Len(p) - Len(Str_logs))

StatusOfLogs(t, found) ==
    IF parse_u64(t) = None THEN 400 ELSE IF found THEN 200 ELSE 404

Pending == [poll |-> "Pending"]
Ready(opt) == [poll |-> "Ready", value |-> opt]
NotPolled == [poll |-> "none"]

StreamId == 0
StreamSource == "main.rs:30"
ItemValues == {1, 2}
MaxEndPolls == 2

\* inner.poll_next(cx): not ready at any time, else the next item, or the
\* end once the items are used up
inner_poll_next(s) ==
    {Pending} \cup
    (IF s.pos < Len(s.items)
     THEN {Ready(Some(s.items[s.pos + 1]))}
     ELSE {Ready(None)})

\* an event is also sent when the inner stream is not ready
poll_next_events_OnPending(id, r) ==
    IF r = Ready(None) THEN <<StreamCompleted(id)>>
    ELSE <<StreamItemYielded(id)>>

\* the events poll_next sends for the inner result r
poll_next_events(id, r) ==
    CASE r.poll = "Ready" /\ r.value # None -> <<StreamItemYielded(id)>>
      [] r.poll = "Ready" /\ r.value = None -> <<StreamCompleted(id)>>
      [] r.poll = "Pending" -> <<>>

\* the value poll_next returns for the inner result r
poll_next_result(r) ==
    CASE r.poll = "Ready" /\ r.value # None -> Ready(Some(unwrap(r.value)))
      [] r.poll = "Ready" /\ r.value = None -> Ready(None)
      [] r.poll = "Pending" -> Pending

\* InstrumentedStream::new has returned: the id is taken and the creation
\* event is sent. The inner stream holds up to MaxMsgs items.
StreamInit ==
    /\ \E n \in 0..MaxMsgs : \E its \in [1..n -> ItemValues] :
           strm = [flavour |-> "stream", id |-> StreamId,
                   items |-> its, pos |-> 0, ended |-> 0,
                   polled |-> NotPolled, returned |-> NotPolled,
                   obtained |-> <<>>]
    /\ events = <<StreamCreated(StreamId, StreamSource)>>
    /\ stats = << >>
    /\ collectorUp = TRUE
    /\ env = EnvUnset
    /\ w = NoChan /\ w2 = NoChan /\ o = NoChan
    /\ site = NoSite /\ http = NoRequest /\ app = NoApp

\* one call of poll_next by the caller, who keeps the items it is handed;
\* after the end the caller polls at most MaxEndPolls - 1 more times
PollNext ==
    \E r \in inner_poll_next(strm) :
        LET ret == poll_next_result(r)
            item == ret.poll = "Ready" /\ ret.value # None
        IN /\ strm.ended < MaxEndPolls
           /\ events' = events \o poll_next_events(strm.id, r)
           /\ strm' = [strm EXCEPT
                  !.polled = r,
                  !.returned = ret,
                  !.pos = IF r.poll = "Ready" /\ r.value # None
                          THEN @ + 1 ELSE @,
                  !.ended = IF r = Ready(None) THEN @ + 1 ELSE @,
                  !.obtained = IF item THEN Append(@, unwrap(ret.value))
                               ELSE @]
           /\ UNCHANGED <<w, w2, o, stats, collectorUp, site, env, http, app>>

StreamNext ==
    \/ PollNext
    \/ CollectorStep

StreamSpec == StreamInit /\ [][StreamNext]_vars

StreamDrained == strm.flavour = "stream" /\ events = <<>> /\ collectorUp

\* C20: every poll returns what the inner poll returned and sends one
\* StreamItemYielded for an item, one StreamCompleted for the end and nothing
\* when not ready; and whenever the collector has drained its queue,
\* items_yielded is the number of items the caller obtained, which are the
\* first items of the inner stream in its order.
C20_PollPassesThrough ==
    /\ [][strm' # strm =>
            /\ strm'.returned = strm'.polled
            /\ events' = events \o
                   (IF strm'.polled = Pending THEN <<>>
                    ELSE IF strm'.polled = Ready(None)
                    THEN <<StreamCompleted(strm.id)>>
                    ELSE <<StreamItemYielded(strm.id)>>)]_vars
    /\ [](StreamDrained =>
            /\ IsStream(stats, strm.id)
            /\ stats[strm.id].items_yielded = Len(strm.obtained)
            /\ strm.obtained = SubSeq(strm.items, 1, Len(strm.obtained)))

\* all items obtained, not in increasing order, with a not-ready poll last,
\* and everything counted
C20_Witness ==
    /\ StreamDrained
    /\ Len(strm.obtained) = MaxMsgs
    /\ strm.obtained[1] > strm.obtained[2]
    /\ strm.ended = 1
    /\ strm.returned = Pending
    /\ stats[strm.id].items_yielded = MaxMsgs
    /\ stats[strm.id].state = "Closed"

\* ------------------------------------------------ the Closed event per endpoint
\* Closed events of id that are queued, plus one when one has been applied
RECURSIVE CountType(_, _, _)
CountType(q, t, id) ==
    IF q = <<>> THEN 0
    ELSE (IF Head(q).type = t /\ Head(q).id = id THEN 1 ELSE 0)
         + CountType(Tail(q), t, id)

ClosedSeen(id) ==
    CountType(events, "Closed", id)
    + (IF id \in DOMAIN stats /\ stats[id].state = "Closed" THEN 1 ELSE 0)

\* C22 (as claimed): the Closed event of the wrapped MPSC channel is emitted
\* at most once, and exactly once as soon as a forwarder has exited.
C22_ClosedOncePerEndpoint ==
    collectorUp =>
        /\ ClosedSeen(ChanId) <= 1
        /\ (w.sf = "done" \/ w.rf = "done") => ClosedSeen(ChanId) = 1

\* C23 (as claimed): in the order in which the collector applies the events
\* of the channel, the N-th MessageReceived comes after the N-th MessageSent:
\* after any number of further queued events has been applied, no more
\* MessageReceived than MessageSent have been applied.
C23_SentAppliedBeforeReceived ==
    ChanId \in DOMAIN stats =>
        \A n \in 0..Len(events) :
            stats[ChanId].received_count
              + CountType(SubSeq(events, 1, n), "MessageReceived", ChanId)
            <= stats[ChanId].sent_count
              + CountType(SubSeq(events, 1, n), "MessageSent", ChanId)

\* C25 (as claimed): for the wrapped oneshot, once MessageSent has been
\* emitted no Closed event is emitted for the channel.
C25_NoClosedAfterTransport ==
    (CountType(events, "MessageSent", OneshotId) > 0
     \/ (OneshotId \in DOMAIN stats /\ stats[OneshotId].sent_count > 0))
    => ClosedSeen(OneshotId) = 0

\* ------------------------- specification: one channel record of any type
\* The collector receives Created for a channel of any type and then any
\* events for it.
ChannelTypes ==
    {Bounded(n) : n \in 0..(MaxCap + 1)} \cup {Unbounded, Oneshot}

ApplyCreateTyped ==
    \E ct \in ChannelTypes :
        /\ stats = << >>
        /\ TableApply(Created(ChanId, ChanSource, ct))

TypedNext ==
    \/ ApplyCreateTyped
    \/ ApplyCounting
    \/ ApplyLifecycle

TypedSpec == TableInit /\ [][TypedNext]_vars

Terminal(state) == state \in {"Closed", "Notified"}

\* the state the claim derives from the record after the event
DerivedState(r) ==
    IF \/ r.channel_type.kind = "Bounded"
          /\ Max(r.sent_count - r.received_count - 1, 0) >= r.channel_type.cap
       \/ r.channel_type.kind = "Oneshot"
          /\ Max(r.sent_count - r.received_count - 1, 0) >= 1
    THEN "Full" ELSE "Active"

\* C26: when the collector applies MessageSent or MessageReceived to a
\* channel record, the counter of the event grows by one and the other stays;
\* a terminal state stays, any other state becomes Full for Bounded(cap) with
\* queued >= cap or Oneshot with queued >= 1, and Active otherwise (so always
\* Active for Unbounded).
C26_StateDerivation ==
    [][\A id \in DOMAIN stats :
         \A t \in {"MessageSent", "MessageReceived"} :
           (/\ IsChannel(stats, id)
            /\ TableApply([type |-> t, id |-> id, timestamp |-> env.now])) =>
              /\ stats'[id].sent_count = stats[id].sent_count
                     + (IF t = "MessageSent" THEN 1 ELSE 0)
              /\ stats'[id].received_count = stats[id].received_count
                     + (IF t = "MessageReceived" THEN 1 ELSE 0)
              /\ stats'[id].state =
                     IF Terminal(stats[id].state) THEN stats[id].state
                     ELSE DerivedState(stats'[id])
              /\ stats'[id].channel_type = Unbounded
                     => stats'[id].state # "Full"]_vars

\* a full Bounded(1) record that was closed took one more MessageSent
C26_Witness ==
    /\ ChanId \in DOMAIN stats
    /\ stats[ChanId].channel_type = Bounded(1)
    /\ stats[ChanId].state = "Closed"
    /\ stats[ChanId].sent_count = MaxLogged
    /\ stats[ChanId].received_count = 0

\* ------------------- specification: wraps, their records and later events
\* Calls of instrument() as in SiteSpec; once a call has spawned its
\* forwarders, the collector receives and applies their events.
ApplyForwarderEvent ==
    \E i \in 1..Len(site.calls),
       t \in {"MessageSent", "MessageReceived", "Closed"} :
        /\ site.calls[i].pc = "returned"
        /\ site.calls[i].id \in DOMAIN stats
        /\ t # "Closed" => SumCounted(DOMAIN stats) < MaxLogged
        /\ TableApply([type |-> t, id |-> site.calls[i].id,
                       timestamp |-> env.now])

\* the wrap sites of this specification: one with a label, one without
WrapKinds == {"std_unbounded", "futures_bounded"}

\* a call of channel!(..) that passes the capacity its kind needs
WrapCall ==
    /\ Len(site.calls) < MaxWraps
    /\ \E kind \in WrapKinds :
          site' = [site EXCEPT
                      !.calls = Append(@, CallInit(kind, Some(MaxCap)))]
    /\ UNCHANGED <<w, w2, o, events, stats, collectorUp, env, strm, http, app>>

WrapTableInit ==
    /\ SiteInit
    /\ collectorUp

WrapTableNext ==
    \/ WrapCall
    \/ \E i \in 1..Len(site.calls) : SiteStep(i, instrument(site.calls[i]), <<>>)
    \/ \E i \in 1..Len(site.calls) : SiteAlloc(i)
    \/ \E i \in 1..Len(site.calls) :
          SiteStep(i, EmitCreated(site.calls[i]),
                   <<CreatedWith(site.calls[i].id,
                                 SiteSource(site.calls[i].kind),
                                 SiteLabel(site.calls[i].kind),
                                 SiteChannelType(site.calls[i]))>>)
    \/ \E i \in 1..Len(site.calls) :
          SiteStep(i, SpawnForwarders(site.calls[i]), <<>>)
    \/ CollectorStep
    \/ ApplyForwarderEvent

WrapTableSpec == WrapTableInit /\ [][WrapTableNext]_vars

IdentityOf(r) ==
    IF r.kind = "Channel"
    THEN <<r.kind, r.id, r.source, r.label, r.iter, r.channel_type>>
    ELSE <<r.kind, r.id, r.source, r.label, r.iter>>

ByteOf ==
    ("1" :> 49) @@ ("2" :> 50) @@ (":" :> 58) @@ ("a" :> 97) @@
    ("b" :> 98) @@ ("m" :> 109)

RECURSIVE str_cmp(_, _)
str_cmp(a, b) ==
    IF a = <<>> /\ b = <<>> THEN "Equal"
    ELSE IF a = <<>> THEN "Less"
    ELSE IF b = <<>> THEN "Greater"
    ELSE IF ByteOf[Head(a)] < ByteOf[Head(b)] THEN "Less"
    ELSE IF ByteOf[Head(a)] > ByteOf[Head(b)] THEN "Greater"
    ELSE str_cmp(Tail(a), Tail(b))

int_cmp(a, b) == IF a < b THEN "Less" ELSE IF a > b THEN "Greater" ELSE "Equal"

\* Ordering::then_with
then_with(first, second) == IF first = "Equal" THEN second ELSE first

\* variant: the labels are not looked at
compare_stats_BySource(a, b) ==
    then_with(str_cmp(a.source, b.source), int_cmp(a.iter, b.iter))

compare_stats(a, b) ==
    CASE a.label # None /\ b.label = None -> "Less"
      [] a.label = None /\ b.label # None -> "Greater"
      [] a.label # None /\ b.label # None ->
             then_with(str_cmp(unwrap(a.label), unwrap(b.label)),
                       int_cmp(a.iter, b.iter))
      [] OTHER ->
             then_with(str_cmp(a.source, b.source), int_cmp(a.iter, b.iter))

\* slice::sort_by is a stable sort: each element goes behind the elements
\* that do not compare Greater than it
RECURSIVE InsertBy(_, _)
InsertBy(r, sorted) ==
    IF sorted = <<>> THEN <<r>>
    ELSE IF compare_stats(r, Head(sorted)) = "Less" THEN <<r>> \o sorted
    ELSE <<Head(sorted)>> \o InsertBy(r, Tail(sorted))

RECURSIVE sort_by(_)
sort_by(v) ==
    IF v = <<>> THEN <<>>
    ELSE InsertBy(v[Len(v)], sort_by(SubSeq(v, 1, Len(v) - 1)))

\* get_all_stats().into_values().collect(): the records in the iteration
\* order of the HashMap, which is any order of its keys
IntoValues(tbl) ==
    {[i \in 1..Cardinality(DOMAIN tbl) |-> tbl[order[i]]] :
        order \in {f \in [1..Cardinality(DOMAIN tbl) -> DOMAIN tbl] :
                      \A i, j \in DOMAIN f : i # j => f[i] # f[j]}}

get_sorted_stats(tbl) == {sort_by(v) : v \in IntoValues(tbl)}

SortSources == {<<"m", ":", "1">>, <<"m", ":", "2">>}
SortLabels == {None, Some(<<"a">>), Some(<<"a", "b">>), Some(<<"b">>)}

ApplyCreateLabelled ==
    \E id \in Ids \cap {Cardinality(DOMAIN stats)},
       src \in SortSources, label \in SortLabels :
        \/ TableApply(CreatedWith(id, src, label, Unbounded))
        \/ TableApply(StreamCreatedWith(id, src, label))

\* one call of get_sorted_stats; the list it returned is kept in http
Snapshot ==
    /\ http = NoRequest
    /\ \E sorted \in get_sorted_stats(stats) :
          http' = [status |-> respond_json, sorted |-> sorted]
    /\ UNCHANGED <<w, w2, o, events, stats, collectorUp, site, env, strm, app>>

SortNext ==
    \/ ApplyCreateLabelled
    \/ Snapshot

SortSpec == HttpInit /\ [][SortNext]_vars

\* a <= b in the lexicographic order of the bytes
TextLeq(a, b) ==
    \/ Len(a) <= Len(b) /\ SubSeq(b, 1, Len(a)) = a
    \/ \E k \in 1..Len(a) :
          /\ k <= Len(b)
          /\ SubSeq(a, 1, k - 1) = SubSeq(b, 1, k - 1)
          /\ ByteOf[a[k]] < ByteOf[b[k]]

\* (t1, n1) <= (t2, n2)
KeyLeq(t1, n1, t2, n2) == TextLeq(t1, t2) /\ (t1 = t2 => n1 <= n2)

\* C29: the list get_sorted_stats returns holds every record of the table
\* once; in it no record without a label stands before a labelled one, the
\* labelled records ascend by (label, iter) and the others by (source, iter).
C29_SortedStats ==
    [][http' # http =>
         LET l == http'.sorted IN
         /\ Len(l) = Cardinality(DOMAIN stats)
         /\ \A id \in DOMAIN stats :
               Cardinality({i \in 1..Len(l) : l[i] = stats[id]}) = 1
         /\ \A i, j \in 1..Len(l) :
               i < j =>
                 /\ l[j].label # None => l[i].label # None
                 /\ (l[i].label # None /\ l[j].label # None) =>
                        KeyLeq(unwrap(l[i].label), l[i].iter,
                               unwrap(l[j].label), l[j].iter)
                 /\ (l[i].label = None /\ l[j].label = None) =>
                        KeyLeq(l[i].source, l[i].iter,
                               l[j].source, l[j].iter)]_vars

\* a list that starts with a labelled record created last and ends with an
\* unlabelled one
C29_Witness ==
    /\ http # NoRequest
    /\ Len(http.sorted) = MaxIds
    /\ http.sorted[1].label # None
    /\ http.sorted[1].id = MaxIds - 1
    /\ http.sorted[MaxIds].label = None
    /\ http.sorted[MaxIds].id = 0

\* --------------------- specification: one wrapped MPSC pair and the clock
\* Instant::now() is monotonic: the clock advances between any two steps, up
\* to MaxTicks, and each forwarder reads it where it builds its event.
Tick ==
    /\ env.now < MaxTicks
    /\ env' = [env EXCEPT !.now = @ + 1]
    /\ UNCHANGED <<w, w2, o, events, stats, collectorUp, site, strm, http, app>>

ClockNext ==
    \/ Next
    \/ Tick

ClockSpec == LiveInit /\ [][ClockNext]_vars

\* C24 (as claimed): in the logs of a channel record every sent entry has at
\* most one received entry with its index, and that entry's timestamp is not
\* before the sent entry's.
C24_ReceivedNotBeforeSent ==
    \A id \in DOMAIN stats :
        IsChannel(stats, id) =>
            \A i \in 1..Len(stats[id].sent_logs) :
                LET s == stats[id].sent_logs[i]
                    match == {j \in 1..Len(stats[id].received_logs) :
                                 stats[id].received_logs[j].index = s.index}
                IN /\ Cardinality(match) <= 1
                   /\ \A j \in match :
                         stats[id].received_logs[j].timestamp >= s.timestamp

\* ------------------------------------------- specification: the dashboard
\* The console's App (bin/cmd/console/app.rs).  stats is the number of rows of
\* the channel list, logs the cached sent_logs of the selected channel (a
\* sequence of entry indices), the two selections are Option<usize>.
MaxChannels == 2
MaxLogEntries == 2

Focus == {"Channels", "Logs", "Inspect"}

AppNew ==
    [stats |-> 0, error |-> FALSE, exit |-> FALSE,
     table_selected |-> Some(0), logs_selected |-> None,
     focus |-> "Channels", show_logs |-> FALSE, logs |-> None,
     paused |-> FALSE, inspected_log |-> None, last |-> "new", fetches |-> 0]

\* what GET /channels/<id>/logs can answer: the most recent sent entries of
\* the channel, consecutive indices, at most MaxLogEntries of them
FetchedLogs ==
    {[i \in 1..n |-> b + i] : n \in 0..MaxLogEntries, b \in 0..1}

saturating_sub(i, d) == IF i >= d THEN i - d ELSE 0
Min(a, b) == IF a <= b THEN a ELSE b

exit(a) == [a EXCEPT !.exit = TRUE]

hide_logs_KeepFocus(a) ==
    [a EXCEPT !.show_logs = FALSE, !.logs = None, !.logs_selected = None]

hide_logs_KeepCache(a) ==
    [a EXCEPT !.show_logs = FALSE, !.logs_selected = None,
              !.focus = "Channels"]

hide_logs(a) ==
    [a EXCEPT !.show_logs = FALSE, !.logs = None, !.logs_selected = None,
              !.focus = "Channels"]

\* the set of results: fetch_logs fails, or answers one of FetchedLogs;
\* fetches counts the HTTP requests issued while handling the current event
refresh_logs(a) ==
    IF a.paused THEN {a}
    ELSE LET cleared == [a EXCEPT !.logs = None]
             asked == [cleared EXCEPT !.fetches = @ + 1]
         IN IF /\ a.table_selected # None
               /\ a.stats # 0
               /\ unwrap(a.table_selected) < a.stats
            THEN {asked} \cup
                 {[asked EXCEPT
                      !.logs = Some(l),
                      !.logs_selected =
                          IF /\ @ # None
                             /\ unwrap(@) >= Len(l)
                             /\ Len(l) > 0
                          THEN Some(Len(l) - 1) ELSE @] : l \in FetchedLogs}
            ELSE {cleared}

AfterChannelSelect_NoPauseCase(b) ==
    IF b.show_logs THEN refresh_logs(b) ELSE {b}

\* the common tail of select_previous_channel and select_next_channel
AfterChannelSelect(b) ==
    IF b.paused /\ b.show_logs THEN {[b EXCEPT !.logs = None]}
    ELSE IF b.show_logs THEN refresh_logs(b)
    ELSE {b}

select_previous_channel(a) ==
    IF a.stats # 0
    THEN LET i == IF a.table_selected # None
                  THEN saturating_sub(unwrap(a.table_selected), 1) ELSE 0
         IN AfterChannelSelect([a EXCEPT !.table_selected = Some(i)])
    ELSE {a}

select_next_channel(a) ==
    IF a.stats # 0
    THEN LET i == IF a.table_selected # None
                  THEN Min(unwrap(a.table_selected) + 1, a.stats - 1) ELSE 0
         IN AfterChannelSelect([a EXCEPT !.table_selected = Some(i)])
    ELSE {a}

toggle_logs(a) ==
    LET has_valid_selection ==
            IF a.table_selected # None
            THEN unwrap(a.table_selected) < a.stats ELSE FALSE
    IN IF a.stats # 0 /\ has_valid_selection
       THEN IF a.show_logs THEN {hide_logs(a)}
            ELSE LET b == [a EXCEPT !.show_logs = TRUE]
                 IN IF b.paused THEN {[b EXCEPT !.logs = None]}
                    ELSE refresh_logs(b)
       ELSE {a}

toggle_pause(a) == [a EXCEPT !.paused = ~ @]

focus_channels(a) == [a EXCEPT !.focus = "Channels", !.logs_selected = None]

focus_logs(a) ==
    IF /\ a.show_logs /\ a.stats # 0
       /\ a.logs # None /\ Len(unwrap(a.logs)) # 0
    THEN [a EXCEPT !.focus = "Logs",
                   !.logs_selected = IF @ = None THEN Some(0) ELSE @]
    ELSE a

\* the selection moves to row i; an open inspect overlay follows it
SelectLog(a, i) ==
    LET b == [a EXCEPT !.logs_selected = Some(i)]
    IN IF a.focus = "Inspect" /\ i < Len(unwrap(a.logs))
       THEN [b EXCEPT !.inspected_log = Some(unwrap(a.logs)[i + 1])]
       ELSE b

select_previous_log(a) ==
    IF a.logs # None /\ Len(unwrap(a.logs)) > 0
    THEN SelectLog(a, IF a.logs_selected # None
                      THEN saturating_sub(unwrap(a.logs_selected), 1) ELSE 0)
    ELSE a

select_next_log(a) ==
    IF a.logs # None /\ Len(unwrap(a.logs)) > 0
    THEN SelectLog(a, IF a.logs_selected # None
                      THEN Min(unwrap(a.logs_selected) + 1,
                               Len(unwrap(a.logs)) - 1)
                      ELSE 0)
    ELSE a

toggle_inspect(a) ==
    IF a.focus = "Inspect"
    THEN [a EXCEPT !.focus = "Logs", !.inspected_log = None]
    ELSE IF /\ a.focus = "Logs" /\ a.logs_selected # None
            /\ a.logs # None
            /\ unwrap(a.logs_selected) < Len(unwrap(a.logs))
    THEN [a EXCEPT
             !.inspected_log = Some(unwrap(a.logs)[unwrap(a.logs_selected) + 1]),
             !.focus = "Inspect"]
    ELSE a

close_inspect_and_refocus_channels(a) ==
    hide_logs([a EXCEPT !.inspected_log = None])

close_inspect_only(a) ==
    [a EXCEPT !.inspected_log = None, !.focus = "Channels",
              !.logs_selected = None]

\* KeyCode::Char(c) is the one-letter string c; the arrow keys are "Left",
\* "Right", "Up", "Down"; "x" stands for every key without a binding
KeyCodes ==
    {"q", "Q", "o", "O", "p", "P", "h", "H", "l", "L", "i", "I",
     "k", "K", "j", "J", "Left", "Right", "Up", "Down", "x"}

\* the set of states the handler can leave the App in
handle_key_event(a, code) ==
    IF code \in {"q", "Q"} THEN {exit(a)}
    ELSE IF code \in {"o", "O"}
    THEN IF a.focus = "Inspect" THEN {close_inspect_and_refocus_channels(a)}
         ELSE IF a.focus = "Logs" THEN {hide_logs(a)}
         ELSE toggle_logs(a)
    ELSE IF code \in {"p", "P"} THEN {toggle_pause(a)}
    ELSE IF code \in {"Left", "h", "H"}
    THEN IF a.focus = "Inspect" THEN {close_inspect_only(a)}
         ELSE {focus_channels(a)}
    ELSE IF code \in {"Right", "l"} THEN {focus_logs(a)}
    ELSE IF code \in {"i", "I"} THEN {toggle_inspect(a)}
    ELSE IF code \in {"Up", "k"}
    THEN IF a.focus = "Channels" THEN select_previous_channel(a)
         ELSE {select_previous_log(a)}
    ELSE IF code \in {"Down", "j"}
    THEN IF a.focus = "Channels" THEN select_next_channel(a)
         ELSE {select_next_log(a)}
    ELSE {a}

refresh_data_DropOnError(a) ==
    {[a EXCEPT !.error = TRUE, !.fetches = @ + 1, !.stats = 0]} \cup
    {[a EXCEPT !.stats = n, !.error = FALSE, !.fetches = @ + 1] :
        n \in 0..MaxChannels}

\* fetch_metrics answers a list of n rows, or fails
refresh_data(a) ==
    {[a EXCEPT !.error = TRUE, !.fetches = @ + 1]} \cup
    UNION {LET b == [a EXCEPT
                        !.stats = n, !.error = FALSE, !.fetches = @ + 1,
                        !.table_selected =
                            IF @ # None /\ unwrap(@) >= n /\ n # 0
                            THEN Some(n - 1) ELSE @]
           IN IF b.show_logs THEN refresh_logs(b) ELSE {b}
           : n \in 0..MaxChannels}

AppInit ==
    /\ app = AppNew
    /\ events = << >> /\ stats = << >> /\ collectorUp = TRUE
    /\ env = EnvUnset
    /\ w = NoChan /\ w2 = NoChan /\ o = NoChan
    /\ site = NoSite /\ strm = NoStream /\ http = NoRequest

\* App::run: the first refresh, and the later ones while not paused
RefreshData ==
    /\ ~ app.exit
    /\ ~ app.paused
    /\ \E b \in refresh_data([app EXCEPT !.fetches = 0]) :
          app' = [b EXCEPT !.last = "refresh"]
    /\ UNCHANGED <<w, w2, o, events, stats, collectorUp, site, env, strm, http>>

\* App::handle_events: one key press; last records the key handled
KeyPress ==
    /\ ~ app.exit
    /\ app.last # "new"
    /\ \E code \in KeyCodes :
          \E b \in handle_key_event([app EXCEPT !.fetches = 0], code) :
              app' = [b EXCEPT !.last = code]
    /\ UNCHANGED <<w, w2, o, events, stats, collectorUp, site, env, strm, http>>

AppNext ==
    \/ RefreshData
    \/ KeyPress

AppSpec == AppInit /\ [][AppNext]_vars

LetterKeys == {<<"q", "Q">>, <<"o", "O">>, <<"p", "P">>, <<"h", "H">>,
               <<"l", "L">>, <<"i", "I">>, <<"k", "K">>, <<"j", "J">>}

\* C21 (as claimed): in every state of the dashboard, each bound letter key
\* (q, o, p, h, l, i, k, j) has the same effect in upper case as in lower
\* case.
C21_UpperSameAsLower ==
    \A pair \in LetterKeys :
        handle_key_event(app, pair[2]) = handle_key_event(app, pair[1])

\* C30: pressing o (or O) with focus Channels, a non-empty list and a valid
\* selection toggles the logs pane and leaves the focus on Channels; with
\* focus Logs it hides the pane and focuses Channels; with focus Inspect it
\* also closes the overlay; whenever it hides the pane, the cached logs and
\* the log selection are cleared.  Nothing else of the App changes except
\* what showing the pane fetches.
C30_KeyO ==
    [][app'.last \in {"o", "O"} =>
          LET valid == /\ app.stats # 0
                       /\ app.table_selected # None
                       /\ unwrap(app.table_selected) < app.stats
              hidden == app.show_logs /\ ~ app'.show_logs
          IN /\ (app.focus = "Channels" /\ valid) =>
                    /\ app'.show_logs = ~ app.show_logs
                    /\ app'.focus = "Channels"
             /\ (app.focus = "Logs") =>
                    /\ ~ app'.show_logs
                    /\ app'.focus = "Channels"
             /\ (app.focus = "Inspect") =>
                    /\ app'.inspected_log = None
                    /\ ~ app'.show_logs
                    /\ app'.focus = "Channels"
             /\ hidden =>
                    /\ app'.logs = None
                    /\ app'.logs_selected = None
             /\ app'.stats = app.stats
             /\ app'.exit = app.exit
             /\ app'.paused = app.paused
             /\ app'.table_selected = app.table_selected
    ]_vars

\* o was pressed on a valid selection with the pane shown: the pane is hidden
C30_Witness ==
    /\ app.last \in {"o", "O"}
    /\ app.stats # 0
    /\ app.table_selected # None
    /\ unwrap(app.table_selected) < app.stats
    /\ ~ app.show_logs
    /\ app.focus = "Channels"

ChannelMoveKeys == {"Up", "k", "Down", "j"}

\* C31: while the dashboard is paused the main loop does not refresh and no
\* key press issues an HTTP request, so the cached channel list stays as it
\* is; a move of the channel selection, or opening the logs pane, while
\* paused leaves the cached logs at none.
C31_PausedNoFetch ==
    [][app.paused =>
          /\ app'.last # "refresh"
          /\ app'.fetches = 0
          /\ app'.stats = app.stats
          /\ (app.focus = "Channels" /\ app'.last \in ChannelMoveKeys)
                => app'.logs = None
          /\ (app.focus = "Channels" /\ app'.last \in {"o", "O"}
                /\ app'.show_logs)
                => app'.logs = None
    ]_vars

\* paused with the pane open and logs cached before, the selection was moved
\* to the second row and the cached logs are gone
C31_Witness ==
    /\ app.paused
    /\ app.show_logs
    /\ app.last = "j"
    /\ app.focus = "Channels"
    /\ app.table_selected = Some(1)
    /\ app.logs = None
    /\ app.fetches = 0

\* C32: a failed fetch of the channel list leaves the list, the channel
\* selection, the cached logs and the focus as they were and sets the error;
\* while the error is set and the loop refreshes, a further fetch is possible
\* whose success clears the error.
C32_FetchFailureKeepsSnapshot ==
    /\ [][(app'.last = "refresh" /\ app'.error) =>
             /\ app'.stats = app.stats
             /\ app'.table_selected = app.table_selected
             /\ app'.logs = app.logs
             /\ app'.logs_selected = app.logs_selected
             /\ app'.focus = app.focus
             /\ app'.show_logs = app.show_logs
             /\ app'.inspected_log = app.inspected_log
             /\ app'.fetches = 1
       ]_vars
    /\ []((app.error /\ ~ app.paused /\ ~ app.exit) =>
             /\ \E b \in refresh_data(app) : ~ b.error
             /\ \A b \in refresh_data(app) : b.fetches > app.fetches)
    /\ [][(app'.last = "refresh" /\ ~ app'.error) => app'.fetches >= 1]_vars

\* a fetch failed while two rows were listed and logs were cached
C32_Witness ==
    /\ app.last = "refresh"
    /\ app.error
    /\ app.stats = 2
    /\ app.logs # None
    /\ app.focus = "Logs"

\* C38: the focus is Logs or Inspect only while the logs pane is shown.
C38_FocusNeedsLogsPane ==
    app.focus \in {"Logs", "Inspect"} => app.show_logs

\* the overlay has the focus, over the shown pane, and a refresh just failed
C38_Witness ==
    /\ app.focus = "Inspect"
    /\ app.show_logs
    /\ app.last = "refresh"
    /\ app.error

\* C39 (as claimed): an inspected log entry is held exactly while the focus
\* is Inspect.
C39_InspectedIffInspectFocus ==
    (app.inspected_log # None) <=> (app.focus = "Inspect")

\* C40 (as claimed): when logs are cached and a log row is selected, the
\* selected index is below the number of cached sent entries.
C40_LogSelectionInRange ==
    (app.logs # None /\ app.logs_selected # None) =>
        unwrap(app.logs_selected) < Len(unwrap(app.logs))

\* C37: the record of the wrapped oneshot channel is never Full: at most one
\* MessageSent is emitted for it, so its queued value is always 0.
C37_OneshotNeverFull ==
    /\ CountType(events, "MessageSent", OneshotId)
         + (IF OneshotId \in DOMAIN stats
            THEN stats[OneshotId].sent_count ELSE 0) <= 1
    /\ OneshotId \in DOMAIN stats =>
          /\ stats[OneshotId].state # "Full"
          /\ queued(stats[OneshotId]) = 0

\* the one MessageSent was applied, nothing else of the transport yet
C37_Witness ==
    /\ OneshotId \in DOMAIN stats
    /\ stats[OneshotId].sent_count = 1
    /\ stats[OneshotId].received_count = 0
    /\ stats[OneshotId].state = "Active"

\* C35: every state of the table a reader can see (the collector holds the
\* write lock for the whole of one event) has, for a limit L >= 1 and every
\* channel record, len(sent_logs) = min(sent_count, L) and
\* len(received_logs) = min(received_count, L).
C35_SnapshotCountsMatchLogs ==
    LET L == get_log_limit(env)
    IN L >= 1 =>
          \A id \in DOMAIN stats :
              IsChannel(stats, id) =>
                  /\ Len(stats[id].sent_logs) = Min(stats[id].sent_count, L)
                  /\ Len(stats[id].received_logs)
                        = Min(stats[id].received_count, L)

\* a ring that has evicted next to one that has not
C35_Witness ==
    \E id \in DOMAIN stats :
        /\ IsChannel(stats, id)
        /\ get_log_limit(env) >= 1
        /\ stats[id].sent_count > get_log_limit(env)
        /\ Len(stats[id].sent_logs) = get_log_limit(env)
        /\ stats[id].received_count = 1
        /\ Len(stats[id].received_logs) = 1

\* ------------- specification: one wrapped MPSC pair and a small log limit
\* As Init, with CHANNELS_CONSOLE_LOG_LIMIT set to a limit >= 1.
RingInit ==
    /\ \E fl \in Flavours, bd \in BOOLEAN, cap \in Caps :
          /\ bd \/ cap = 1
          /\ w = WrapInit(fl, bd, IF bd THEN cap ELSE 0, LiveMsgs)
    /\ w2 = NoChan
    /\ o = NoChan
    /\ collectorUp = TRUE
    /\ events = Emit(<<>>, Created(ChanId, ChanSource, ChannelTypeOf(w)), collectorUp)
    /\ stats = << >>
    /\ site = NoSite
    /\ env \in {e \in LimitEnvs : get_log_limit(e) \in 1..MaxLimit}
    /\ strm = NoStream /\ http = NoRequest /\ app = NoApp

RingSpec == RingInit /\ [][Next]_vars

\* C36 (as claimed): with a limit L >= 1, every entry of sent_logs whose index
\* is <= received_count has an entry with the same index in received_logs.
C36_ReceivedSentEntryHasReceivedEntry ==
    (ChanId \in DOMAIN stats /\ get_log_limit(env) >= 1) =>
        \A i \in 1..Len(stats[ChanId].sent_logs) :
            stats[ChanId].sent_logs[i].index <= stats[ChanId].received_count
            => \E j \in 1..Len(stats[ChanId].received_logs) :
                  stats[ChanId].received_logs[j].index
                      = stats[ChanId].sent_logs[i].index

\* C33 (as claimed): in the blocking-thread wrappers, once the user receiver
\* is dropped (the collector running) the record eventually reaches state
\* Closed, whether or not the user sender sends again.
C33_ReceiverDropCloses ==
    (w.flavour = "blocking" /\ ~ w.outer_rx /\ collectorUp) ~> RecordClosed

\* C34: once the user sender and the user receiver are both dropped, both
\* forwarders eventually terminate, whatever the three channels still hold.
C34_ForwardersTerminate ==
    (~ w.outer_tx /\ ~ w.outer_rx) ~> (w.sf = "done" /\ w.rf = "done")

\* both ends dropped while every message sent was still in the wrapper, and
\* both forwarders have ended
C34_Witness ==
    /\ ~ w.outer_tx /\ ~ w.outer_rx
    /\ Len(w.sent) = LiveMsgs
    /\ w.rcvd = <<>>
    /\ w.sf = "done" /\ w.rf = "done"

====
